---- MODULE Spec2Model ----
(***************************************************************************)
(* Model of the STCM incremental chunked-extraction pipeline:              *)
(*   backend/utils/scan_lock.py          ScanLockManager                   *)
(*   backend/services/chunk_processor.py ChunkProcessor                    *)
(*   backend/api/routes.py               run_scan                          *)
(*   backend/services/two_phase_processor.py  merge engine                 *)
(* Message indices are absolute positions in the chat file; a chunk is the *)
(* pair <<start, end>> of the half-open message slice it was cut from.     *)
(* Confidences are integers in tenths (9 stands for 0.9).                  *)
(***************************************************************************)
EXTENDS Integers, Sequences, FiniteSets, TLC

\* ------------------------------------------------------------------------
\* Bounds of the model
\* ------------------------------------------------------------------------
MaxWinN == 12
MaxWinC == 5
MaxWinM == 3
MaxAppends == 1
MaxTime == 1800

\* ------------------------------------------------------------------------
\* Helpers
\* ------------------------------------------------------------------------
Min(a, b) == IF a <= b THEN a ELSE b

Max(a, b) == IF a >= b THEN a ELSE b

NoCheckpoint == [absent |-> TRUE]

\* ------------------------------------------------------------------------
\* ChunkProcessor (chunk_processor.py)
\* ------------------------------------------------------------------------

\* The while loop of _create_overlapping_chunks over a list of len messages;
\* chunks are <<start, end>> positions in that list.
RECURSIVE ChunkLoop(_, _, _, _, _)
ChunkLoop(start, len, C, O, chunks) ==
    IF start < len
    THEN LET end == Min(start + C, len)
             appended == Append(chunks, <<start, end>>)
         IN  IF end >= len
             THEN appended
             ELSE ChunkLoop(start + C - O, len, C, O, appended)
    ELSE chunks

\* _create_overlapping_chunks that forgets the overlap when it advances
CreateDisjointChunks(len, C, O) ==
    IF len = 0 THEN <<>> ELSE ChunkLoop(0, len, C, 0, <<>>)

_create_overlapping_chunks(len, C, O) ==
    IF len = 0 THEN <<>> ELSE ChunkLoop(0, len, C, O, <<>>)

\* the start index of a windower that resumes one message after the
\* checkpoint
StartIndexNext(cp, force) ==
    IF ~force /\ cp # NoCheckpoint THEN cp.last_processed_index + 1 ELSE 0

\* the start index of a windower that never looks at the checkpoint
StartIndexZero(cp, force) == 0

\* start_index of get_chunks_to_process: cp = the stored checkpoint row (or
\* NoCheckpoint), force = force_rescan (incremental_mode is on)
StartIndex(cp, force) ==
    IF ~force /\ cp # NoCheckpoint THEN cp.last_processed_index ELSE 0

\* get_chunks_to_process reporting its start as the end of what it returned
GetChunksNoAdvance(total, cp, force, C, O, M) ==
    LET start_index == StartIndex(cp, force)
    IN  IF start_index >= total
        THEN [chunks |-> <<>>,
              total_messages |-> total,
              start_index |-> start_index,
              end_index |-> start_index]
        ELSE LET rel == _create_overlapping_chunks(total - start_index, C, O)
                 kept == IF Len(rel) > M THEN SubSeq(rel, 1, M) ELSE rel
             IN  [chunks |-> [k \in 1..Len(kept) |->
                                 <<start_index + kept[k][1],
                                   start_index + kept[k][2]>>],
                  total_messages |-> total,
                  start_index |-> start_index,
                  end_index |-> start_index]

\* get_chunks_to_process that counts whole chunks, overlap included, when
\* it capped
GetChunksEndStride(total, cp, force, C, O, M) ==
    LET start_index == StartIndex(cp, force)
    IN  IF start_index >= total
        THEN [chunks |-> <<>>,
              total_messages |-> total,
              start_index |-> start_index,
              end_index |-> start_index]
        ELSE LET rel == _create_overlapping_chunks(total - start_index, C, O)
                 capped == Len(rel) > M
                 kept == IF capped THEN SubSeq(rel, 1, M) ELSE rel
                 end_index == IF capped THEN start_index + M * C ELSE total
             IN  [chunks |-> [k \in 1..Len(kept) |->
                                 <<start_index + kept[k][1],
                                   start_index + kept[k][2]>>],
                  total_messages |-> total,
                  start_index |-> start_index,
                  end_index |-> Min(end_index, total)]

\* get_chunks_to_process reporting the end of the chat also when it capped
GetChunksEndTotal(total, cp, force, C, O, M) ==
    LET start_index == StartIndex(cp, force)
    IN  IF start_index >= total
        THEN [chunks |-> <<>>,
              total_messages |-> total,
              start_index |-> start_index,
              end_index |-> start_index]
        ELSE LET rel == _create_overlapping_chunks(total - start_index, C, O)
                 kept == IF Len(rel) > M THEN SubSeq(rel, 1, M) ELSE rel
             IN  [chunks |-> [k \in 1..Len(kept) |->
                                 <<start_index + kept[k][1],
                                   start_index + kept[k][2]>>],
                  total_messages |-> total,
                  start_index |-> start_index,
                  end_index |-> total]

\* get_chunks_to_process: total = len(all_messages).  Chunks are returned
\* as absolute message slices.
get_chunks_to_process(total, cp, force, C, O, M) ==
    LET start_index == StartIndex(cp, force)
    IN  IF start_index >= total
        THEN [chunks |-> <<>>,
              total_messages |-> total,
              start_index |-> start_index,
              end_index |-> start_index]
        ELSE LET rel == _create_overlapping_chunks(total - start_index, C, O)
                 capped == Len(rel) > M
                 kept == IF capped THEN SubSeq(rel, 1, M) ELSE rel
                 end_index == IF capped THEN start_index + M * (C - O)
                                        ELSE total
             IN  [chunks |-> [k \in 1..Len(kept) |->
                                 <<start_index + kept[k][1],
                                   start_index + kept[k][2]>>],
                  total_messages |-> total,
                  start_index |-> start_index,
                  end_index |-> Min(end_index, total)]

\* ------------------------------------------------------------------------
\* Python strings are sequences of one-character strings
\* ------------------------------------------------------------------------
LowerChar(c) ==
    CASE c = "A" -> "a"
      [] c = "B" -> "b"
      [] c = "G" -> "g"
      [] OTHER -> c

\* str.lower()
Lower(s) == [i \in 1..Len(s) |-> LowerChar(s[i])]

IsSpace(c) == c = " "

\* str.strip()
RECURSIVE LStrip(_)
LStrip(s) == IF s # <<>> /\ IsSpace(Head(s)) THEN LStrip(Tail(s)) ELSE s

RECURSIVE RStrip(_)
RStrip(s) ==
    IF s # <<>> /\ IsSpace(s[Len(s)])
    THEN RStrip(SubSeq(s, 1, Len(s) - 1))
    ELSE s

Strip(s) == RStrip(LStrip(s))

\* the Python test  needle in hay
Contains(hay, needle) ==
    \E i \in 0..(Len(hay) - Len(needle)) :
        SubSeq(hay, i + 1, i + Len(needle)) = needle

\* dict.get(key, default)
Get(d, key, default) == IF key \in DOMAIN d THEN d[key] ELSE default

\* d[key] = value
Put(d, key, value) ==
    [k \in DOMAIN d \cup {key} |-> IF k = key THEN value ELSE d[k]]

\* ------------------------------------------------------------------------
\* Merge engine (two_phase_processor.py)
\* ------------------------------------------------------------------------
EntityTypes == <<"npcs", "factions", "locations", "items", "aliases", "stats">>

EmptyEntities == [t \in {EntityTypes[i] : i \in 1..Len(EntityTypes)} |-> <<>>]

CopiedKeys == <<"relationship", "goals", "leadership", "territory", "properties">>

\* _find_existing_entity comparing the names as they are spelled
FindExactName(entity_list, entity) ==
    LET hits == {i \in 1..Len(entity_list) :
                   Get(entity_list[i], "name", <<>>) = Get(entity, "name", <<>>)}
    IN  IF hits = {} THEN 0
        ELSE CHOOSE i \in hits : \A j \in hits : i <= j

\* _find_existing_entity: position of the first entity of the list whose
\* lowercased, stripped name equals that of entity; 0 stands for None.
_find_existing_entity(entity_list, entity) ==
    LET entity_name == Strip(Lower(Get(entity, "name", <<>>)))
        hits == {i \in 1..Len(entity_list) :
                   Strip(Lower(Get(entity_list[i], "name", <<>>))) = entity_name}
    IN  IF hits = {} THEN 0
        ELSE CHOOSE i \in hits : \A j \in hits : i <= j

RECURSIVE CopyMissing(_, _, _)
\* the loop over the copied keys taking every value that new has
CopyOverwrite(existing, new, k) ==
    LET taken == {CopiedKeys[i] : i \in k..Len(CopiedKeys)} \cap DOMAIN new
    IN  [key \in DOMAIN existing \cup taken |->
            IF key \in taken THEN new[key] ELSE existing[key]]

\* the loop over the copied keys, from the k-th on
CopyMissing(existing, new, k) ==
    IF k > Len(CopiedKeys) THEN existing
    ELSE LET key == CopiedKeys[k]
         IN  CopyMissing(IF key \in DOMAIN new /\ key \notin DOMAIN existing
                         THEN Put(existing, key, new[key])
                         ELSE existing,
                         new, k + 1)

\* _merge_entity_info that keeps the first description and confidence
MergeKeepFirst(existing, new) ==
    Put(existing, "mentions",
        Get(existing, "mentions", 1) + Get(new, "mentions", 1))

\* _merge_entity_info: the value of existing after the in-place merge of new
_merge_entity_info(existing, new) ==
    LET e1 == IF Get(new, "confidence", 0) > Get(existing, "confidence", 0)
              THEN Put(existing, "confidence", new["confidence"])
              ELSE existing
        existing_desc == Lower(Get(existing, "description", <<>>))
        new_desc == Lower(Get(new, "description", <<>>))
        e2 == IF new_desc # <<>> /\ ~Contains(existing_desc, new_desc)
              THEN Put(e1, "description",
                       Strip(Get(existing, "description", <<>>) \o <<" ">>
                             \o Get(new, "description", <<>>)))
              ELSE e1
        e3 == Put(e2, "mentions",
                  Get(existing, "mentions", 1) + Get(new, "mentions", 1))
    IN  CopyMissing(e3, new, 1)

\* the innermost loop replacing the entity it found by the incoming one
MergeOneTakeNew(merged, entity_type, entity) ==
    LET pos == _find_existing_entity(merged[entity_type], entity)
    IN  IF pos # 0
        THEN [merged EXCEPT ![entity_type][pos] = entity]
        ELSE [merged EXCEPT ![entity_type] = Append(@, entity)]

\* one iteration of the innermost loop of _merge_and_deduplicate
MergeOne(merged, entity_type, entity) ==
    LET pos == _find_existing_entity(merged[entity_type], entity)
        \* "if existing:" is the truth value of the dict found
        found == pos # 0 /\ DOMAIN merged[entity_type][pos] # {}
    IN  IF found
        THEN [merged EXCEPT ![entity_type][pos] =
                 _merge_entity_info(merged[entity_type][pos], entity)]
        ELSE [merged EXCEPT ![entity_type] = Append(@, entity)]

RECURSIVE MergeList(_, _, _, _)
MergeList(merged, entity_type, entity_list, i) ==
    IF i > Len(entity_list) THEN merged
    ELSE MergeList(MergeOne(merged, entity_type, entity_list[i]),
                   entity_type, entity_list, i + 1)

RECURSIVE MergeChunk(_, _, _)
MergeChunk(merged, chunk_entities, t) ==
    IF t > Len(EntityTypes) THEN merged
    ELSE MergeChunk(MergeList(merged, EntityTypes[t],
                              chunk_entities[EntityTypes[t]], 1),
                    chunk_entities, t + 1)

RECURSIVE MergeFrom(_, _, _)
MergeFrom(merged, all_chunk_entities, c) ==
    IF c > Len(all_chunk_entities) THEN merged
    ELSE MergeFrom(MergeChunk(merged, all_chunk_entities[c], 1),
                   all_chunk_entities, c + 1)

\* _merge_and_deduplicate that stops after the first chunk
MergeFirstChunk(all_chunk_entities) ==
    IF all_chunk_entities = <<>> THEN EmptyEntities
    ELSE MergeChunk(EmptyEntities, all_chunk_entities[1], 1)

\* _merge_and_deduplicate
_merge_and_deduplicate(all_chunk_entities) ==
    MergeFrom(EmptyEntities, all_chunk_entities, 1)

\* ------------------------------------------------------------------------
\* ScanLockManager (scan_lock.py)
\* ------------------------------------------------------------------------
NoLock == -1

StaleSeconds == 1800

DaySeconds == 86400

\* timedelta.seconds of a difference of d seconds
Seconds(d) == d % DaySeconds

\* acquire_scan_lock without the test of the lock table
AcquireResultUnchecked(locks, chat_file, t) == TRUE

\* acquire_scan_lock: the value it returns ...
AcquireResult(locks, chat_file, t) ==
    IF locks[chat_file] # NoLock
       /\ Seconds(t - locks[chat_file]) < StaleSeconds
    THEN FALSE
    ELSE TRUE

\* acquire_scan_lock stamping the entry also when it refuses
AcquireTableRestamp(locks, chat_file, t) == [locks EXCEPT ![chat_file] = t]

\* ... and the lock table it leaves
AcquireTable(locks, chat_file, t) ==
    IF AcquireResult(locks, chat_file, t)
    THEN [locks EXCEPT ![chat_file] = t]
    ELSE locks

\* release_scan_lock that leaves the entry in place
ReleaseTableKeep(locks, chat_file) == locks

\* release_scan_lock
ReleaseTable(locks, chat_file) == [locks EXCEPT ![chat_file] = NoLock]

\* ------------------------------------------------------------------------
\* The merge loop of run_scan (routes.py)
\* ------------------------------------------------------------------------
\* next(e for e in list if e.name.lower() == entity.name.lower()), 0 = None
RunScanFind(entity_list, entity) ==
    LET hits == {i \in 1..Len(entity_list) :
                   Lower(Get(entity_list[i], "name", <<>>))
                     = Lower(Get(entity, "name", <<>>))}
    IN  IF hits = {} THEN 0
        ELSE CHOOSE i \in hits : \A j \in hits : i <= j

\* existing.update(entity)
DictUpdate(existing, entity) ==
    [k \in DOMAIN existing \cup DOMAIN entity |->
        IF k \in DOMAIN entity THEN entity[k] ELSE existing[k]]

RunScanMergeOne(all_entities, entity_type, entity) ==
    LET pos == RunScanFind(all_entities[entity_type], entity)
        found == pos # 0 /\ DOMAIN all_entities[entity_type][pos] # {}
    IN  IF found
        THEN IF Get(entity, "confidence", 0)
                  > Get(all_entities[entity_type][pos], "confidence", 0)
             THEN [all_entities EXCEPT ![entity_type][pos] =
                      DictUpdate(@, entity)]
             ELSE all_entities
        ELSE [all_entities EXCEPT ![entity_type] = Append(@, entity)]

RECURSIVE RunScanMergeList(_, _, _, _)
RunScanMergeList(all_entities, entity_type, entity_list, i) ==
    IF i > Len(entity_list) THEN all_entities
    ELSE RunScanMergeList(
             RunScanMergeOne(all_entities, entity_type, entity_list[i]),
             entity_type, entity_list, i + 1)

RECURSIVE RunScanMergeChunk(_, _, _)
RunScanMergeChunk(all_entities, chunk_entities, t) ==
    IF t > Len(EntityTypes) THEN all_entities
    ELSE RunScanMergeChunk(
             RunScanMergeList(all_entities, EntityTypes[t],
                              chunk_entities[EntityTypes[t]], 1),
             chunk_entities, t + 1)

\* the merges of the chunk loop for the batches c.. of chunks that do not
\* raise
RECURSIVE RunScanMergeFrom(_, _, _)
RunScanMergeFrom(all_entities, batches, c) ==
    IF c > Len(batches) THEN all_entities
    ELSE RunScanMergeFrom(RunScanMergeChunk(all_entities, batches[c], 1),
                          batches, c + 1)

\* sum(len(all_entities.get(t, [])) for t in all_entities.keys())
RECURSIVE CountFrom(_, _)
CountFrom(all_entities, t) ==
    IF t > Len(EntityTypes) THEN 0
    ELSE Len(all_entities[EntityTypes[t]]) + CountFrom(all_entities, t + 1)

TotalEntities(all_entities) == CountFrom(all_entities, 1)

\* the (entity_type, entity) pairs in the order the queueing loop visits them
RECURSIVE FlattenFrom(_, _)
FlattenFrom(all_entities, t) ==
    IF t > Len(EntityTypes) THEN <<>>
    ELSE [i \in 1..Len(all_entities[EntityTypes[t]]) |->
             [entity_type |-> EntityTypes[t],
              entity |-> all_entities[EntityTypes[t]][i]]]
         \o FlattenFrom(all_entities, t + 1)

Flatten(all_entities) == FlattenFrom(all_entities, 1)

\* ENTITY_TYPE_MAP
ENTITY_TYPE_MAP(t) ==
    CASE t = "npcs" -> "npc"
      [] t = "factions" -> "faction"
      [] t = "locations" -> "location"
      [] t = "items" -> "item"
      [] t = "aliases" -> "alias"
      [] t = "stats" -> "stat"
      [] OTHER -> t

\* ------------------------------------------------------------------------
\* Database (database.py)
\* ------------------------------------------------------------------------
\* a queue of one row, which every call overwrites
AddEntityOverwrite(rows, row) ==
    IF rows = <<>> THEN <<row>> ELSE [rows EXCEPT ![Len(rows)] = row]

\* add_entity: update the first pending row with the same name, type and
\* target file, or insert a new row
add_entity(rows, row) ==
    LET hits == {i \in 1..Len(rows) :
                   /\ rows[i].entity_name = row.entity_name
                   /\ rows[i].entity_type = row.entity_type
                   /\ rows[i].target_file = row.target_file}
    IN  IF hits # {}
        THEN LET i == CHOOSE i \in hits : \A j \in hits : i <= j
             IN  [rows EXCEPT ![i] = row]
        ELSE Append(rows, row)

\* the SELECT of add_entity: the id of the first pending row with the same
\* name, type and target file, 0 = None
SelectExisting(rows, row) ==
    LET hits == {i \in 1..Len(rows) :
                   /\ rows[i].entity_name = row.entity_name
                   /\ rows[i].entity_type = row.entity_type
                   /\ rows[i].target_file = row.target_file}
    IN  IF hits = {} THEN 0
        ELSE CHOOSE i \in hits : \A j \in hits : i <= j

\* what add_entity does after the SELECT: the UPDATE of the row found, or
\* the INSERT
WriteEntity(rows, row, existing) ==
    IF existing # 0
    THEN [rows EXCEPT ![existing] =
             [@ EXCEPT !.entity_data = row.entity_data,
                       !.confidence_score = row.confidence_score,
                       !.source_messages = row.source_messages]]
    ELSE Append(rows, row)

\* ------------------------------------------------------------------------
\* State
\* ------------------------------------------------------------------------
Sources == {"s1", "s2"}

Procs == {"t1", "t2"}

VARIABLES
    now,           \* datetime.now(), in seconds
    active_scans,  \* ScanLockManager.active_scans: source -> timestamp
    config,        \* scanning.chunk_size, chunk_overlap, max_chunks_per_scan
    messages,      \* number of messages in each chat file
    checkpoint,    \* table processing_checkpoints: source -> row
    entity_queue,  \* table entity_queue: the pending rows
    scan_history,  \* table scan_history
    scan,          \* the run_scan tasks: task -> its local state
    reclaimed,     \* history: an attempt found the source's lock entry stale
    win,           \* windower under test: the inputs N, cp, force, C, O, M
    wout,          \* windower under test: the result of get_chunks_to_process
    mrg_in,        \* merge engine under test: the per-chunk candidate batches
    mrg_out,       \* merge engine under test: the merged set
    flt_in,        \* filter under test: the entities, source text, threshold
    flt_out,       \* filter under test: the result of filter_hallucinations
    ext_in,        \* chunk loop under test: the texts and oracle responses
    ext_out,       \* chunk loop under test: extraction results and events
    caller         \* what the caller of each run_scan has got back

vars == <<now, active_scans, config, messages, checkpoint, entity_queue,
          scan_history, scan, reclaimed, win, wout, mrg_in, mrg_out,
          flt_in, flt_out, ext_in, ext_out, caller>>

\* the variables of the functions applied on their own
harness ==
    <<win, wout, mrg_in, mrg_out, flt_in, flt_out, ext_in, ext_out, caller>>

scanVars == <<now, active_scans, config, messages, checkpoint, entity_queue,
              scan_history, scan, reclaimed>>

NotRun == [pending |-> TRUE]

\* the character file every chat is mapped to
CharacterFile(chat_file) == "char.json"

\* the filtered candidate batches the oracle and the filter may give a chunk
Cand(name, confidence) == [name |-> name, confidence |-> confidence]

BatchPool ==
    {EmptyEntities,
     [EmptyEntities EXCEPT !["npcs"] = <<Cand(<<"a">>, 4)>>],
     [EmptyEntities EXCEPT !["npcs"] = <<Cand(<<"A">>, 9)>>,
                           !["factions"] = <<Cand(<<"a">>, 4)>>]}

\* the (type, lowercased name) keys of the candidates of a batch
BatchKeys(b) ==
    UNION {{<<EntityTypes[t], Lower(Get(b[EntityTypes[t]][i], "name", <<>>))>> :
               i \in 1..Len(b[EntityTypes[t]])} :
           t \in 1..Len(EntityTypes)}

Configs == {[chunk_size |-> 2, overlap |-> 1, max_chunks |-> 2]}

\* the chats at the start: one of three messages, one still empty; only the
\* first still receives messages
LiveChats == {"s1"}

InitMessages == [s \in Sources |-> IF s = "s1" THEN 3 ELSE 0]

RECURSIVE SumOver(_, _)
SumOver(f, S) ==
    IF S = {} THEN 0
    ELSE LET x == CHOOSE x \in S : TRUE IN f[x] + SumOver(f, S \ {x})

\* task-local state of run_scan.  total is len(all_messages) (-1: not read),
\* cp_read the checkpoint row get_checkpoint returned, cp_before the row
\* stored when the scan started, chunk_idx the number of chunks the loop has
\* finished, errors the chunk numbers of the "Error processing chunk" lines,
\* merged_keys the (type, name) keys of the candidates merged so far, q_idx
\* the number of add_entity calls made, record the scan_history row written.
IdleScan ==
    [pc |-> "idle", chat_file |-> "", force_rescan |-> FALSE,
     total |-> -1, cp_before |-> NoCheckpoint, cp_read |-> NoCheckpoint,
     chunks |-> <<>>, metadata |-> NotRun,
     chunk_idx |-> 0, all_entities |-> EmptyEntities, merged_keys |-> {},
     q_idx |-> 0, record |-> 0, errors |-> <<>>, existing |-> 0,
     acquired |-> -1]

NoHarness ==
    /\ win = NotRun /\ wout = NotRun
    /\ mrg_in = NotRun /\ mrg_out = NotRun
    /\ flt_in = NotRun /\ flt_out = NotRun
    /\ ext_in = NotRun /\ ext_out = NotRun
    /\ caller = NotRun

NoScans ==
    /\ now = 0
    /\ active_scans = [s \in Sources |-> NoLock]
    /\ messages = InitMessages
    /\ checkpoint = [s \in Sources |-> NoCheckpoint]
    /\ entity_queue = <<>>
    /\ scan_history = <<>>
    /\ scan = [p \in Procs |-> IdleScan]
    /\ reclaimed = [s \in Sources |-> FALSE]

Init ==
    /\ NoScans
    /\ config \in Configs
    /\ NoHarness

\* ------------------------------------------------------------------------
\* run_scan (routes.py), one action per stretch of code between two awaits
\* ------------------------------------------------------------------------
Holding == {"get_checkpoint", "noop_record", "extract", "add_entity",
            "update_checkpoint", "record", "except", "finally"}

\* the local state once get_chunks_to_process has returned
WithChunks(st, total, cp, r) ==
    [st EXCEPT !.total = total,
               !.cp_read = cp,
               !.chunks = r.chunks,
               !.metadata = [total_messages |-> r.total_messages,
                             start_index |-> r.start_index,
                             end_index |-> r.end_index],
               !.pc = IF r.chunks = <<>> THEN "noop_record" ELSE "extract"]

\* run_scan is called: acquire_scan_lock, and when the lock is granted the
\* code up to the first await of get_chunks_to_process (read_chat, and for a
\* forced rescan the windowing, which then reads no checkpoint)
StartScan(p, s, f) ==
    /\ scan[p].pc = "idle"
    /\ active_scans' = AcquireTable(active_scans, s, now)
    /\ reclaimed' = [reclaimed EXCEPT ![s] =
                        @ \/ (active_scans[s] # NoLock
                              /\ Seconds(now - active_scans[s]) >= StaleSeconds)]
    /\ LET st == [scan[p] EXCEPT !.chat_file = s, !.force_rescan = f,
                                 !.cp_before = checkpoint[s]]
       IN  IF ~AcquireResult(active_scans, s, now)
           THEN scan' = [scan EXCEPT ![p] = [st EXCEPT !.pc = "skipped"]]
           ELSE \/ scan' = [scan EXCEPT ![p] = [st EXCEPT !.pc = "except"]]
                \/ /\ f
                   /\ scan' = [scan EXCEPT ![p] =
                         WithChunks(st, messages[s], NoCheckpoint,
                            get_chunks_to_process(messages[s], NoCheckpoint,
                                TRUE, config.chunk_size, config.overlap,
                                config.max_chunks))]
                \/ /\ ~f
                   /\ scan' = [scan EXCEPT ![p] =
                         [st EXCEPT !.total = messages[s],
                                    !.pc = "get_checkpoint"]]
    /\ UNCHANGED <<now, config, messages, checkpoint, entity_queue,
                   scan_history>>

\* db.get_checkpoint returns (or raises) and the windowing follows
GetCheckpoint(p) ==
    /\ scan[p].pc = "get_checkpoint"
    /\ \/ scan' = [scan EXCEPT ![p].pc = "except"]
       \/ scan' = [scan EXCEPT ![p] =
             WithChunks(@, @.total, checkpoint[@.chat_file],
                get_chunks_to_process(@.total, checkpoint[@.chat_file],
                    FALSE, config.chunk_size, config.overlap,
                    config.max_chunks))]
    /\ UNCHANGED <<now, active_scans, config, messages, checkpoint,
                   entity_queue, scan_history, reclaimed>>

\* the checkpoint written as soon as the chunks are done
AfterChunkNoQueue(st, idx, all_entities) ==
    IF idx < Len(st.chunks) THEN "extract" ELSE "update_checkpoint"

\* where the scan goes after the chunk numbered idx
AfterChunk(st, idx, all_entities) ==
    IF idx < Len(st.chunks) THEN "extract"
    ELSE IF Flatten(all_entities) = <<>> THEN "update_checkpoint"
    ELSE "add_entity"

\* the oracle or the filter raised
Raised == [raised |-> TRUE]

\* the chunk loop aborting the scan when a chunk raises
AfterExtractAbort(st, outcome) ==
    IF outcome = Raised
    THEN [st EXCEPT !.pc = "except"]
    ELSE LET merged == RunScanMergeChunk(st.all_entities, outcome, 1)
         IN  [st EXCEPT !.chunk_idx = @ + 1,
                        !.all_entities = merged,
                        !.merged_keys = @ \cup BatchKeys(outcome),
                        !.pc = AfterChunk(st, st.chunk_idx + 1, merged)]

\* the local state after one iteration of the chunk loop: the oracle and
\* the filter gave the chunk's candidates (outcome), which are merged, or
\* one of them raised, which is printed, and the loop continues
AfterExtract(st, outcome) ==
    IF outcome = Raised
    THEN [st EXCEPT !.chunk_idx = @ + 1,
                    !.errors = Append(@, st.chunk_idx + 1),
                    !.pc = AfterChunk(st, st.chunk_idx + 1, st.all_entities)]
    ELSE LET merged == RunScanMergeChunk(st.all_entities, outcome, 1)
         IN  [st EXCEPT !.chunk_idx = @ + 1,
                        !.all_entities = merged,
                        !.merged_keys = @ \cup BatchKeys(outcome),
                        !.pc = AfterChunk(st, st.chunk_idx + 1, merged)]

Extract(p) ==
    /\ scan[p].pc = "extract"
    /\ \E outcome \in {Raised} \cup BatchPool :
          scan' = [scan EXCEPT ![p] = AfterExtract(scan[p], outcome)]
    /\ UNCHANGED <<now, active_scans, config, messages, checkpoint,
                   entity_queue, scan_history, reclaimed>>

\* the row db.add_entity is called with
QueueRow(st, item) ==
    [entity_type |-> ENTITY_TYPE_MAP(item.entity_type),
     entity_name |-> Get(item.entity, "name", <<"U">>),
     entity_data |-> item.entity,
     target_file |-> CharacterFile(st.chat_file),
     source_messages |-> <<st.metadata.start_index, st.metadata.end_index,
                           st.chat_file>>,
     confidence_score |-> Get(item.entity, "confidence", 5)]

\* one iteration of the queueing loop
AddEntity(p) ==
    /\ scan[p].pc = "add_entity"
    /\ \/ /\ scan' = [scan EXCEPT ![p].pc = "except"]
          /\ UNCHANGED entity_queue
       \/ LET items == Flatten(scan[p].all_entities)
              item == items[scan[p].q_idx + 1]
          IN  /\ entity_queue' = add_entity(entity_queue,
                                            QueueRow(scan[p], item))
              /\ scan' = [scan EXCEPT ![p] =
                    [@ EXCEPT !.q_idx = @ + 1,
                              !.pc = IF scan[p].q_idx + 1 < Len(items)
                                     THEN "add_entity"
                                     ELSE "update_checkpoint"]]
    /\ UNCHANGED <<now, active_scans, config, messages, checkpoint,
                   scan_history, reclaimed>>

\* the row stored with the length of the chat as update_checkpoint reads it
\* again
CheckpointRowReread(st) ==
    [last_processed_index |-> messages[st.chat_file],
     total_messages |-> st.metadata.total_messages]

\* the row stored with the number of messages processed as the index
CheckpointRowCount(st) ==
    [last_processed_index |-> st.metadata.end_index - st.metadata.start_index,
     total_messages |-> st.metadata.total_messages]

\* the row update_checkpoint(chat_file, end_index, total_messages) stores
CheckpointRow(st) ==
    [last_processed_index |-> st.metadata.end_index,
     total_messages |-> st.metadata.total_messages]

\* chunk_processor.update_checkpoint, called when the entities are queued
UpdateCheckpoint(p) ==
    /\ scan[p].pc = "update_checkpoint"
    /\ \/ /\ scan' = [scan EXCEPT ![p].pc = "except"]
          /\ UNCHANGED checkpoint
       \/ /\ checkpoint' = [checkpoint EXCEPT ![scan[p].chat_file] =
                                CheckpointRow(scan[p])]
          /\ scan' = [scan EXCEPT ![p].pc = "record"]
    /\ UNCHANGED <<now, active_scans, config, messages, entity_queue,
                   scan_history, reclaimed>>

\* a scan record that reports every scan as completed
HistoryRowCompleted(st, messages_scanned, entities_found, status, error_message) ==
    [chat_file |-> st.chat_file,
     character_file |-> CharacterFile(st.chat_file),
     messages_scanned |-> messages_scanned,
     entities_found |-> entities_found,
     status |-> "completed",
     error_message |-> error_message]

\* the row add_scan_record inserts
HistoryRow(st, messages_scanned, entities_found, status, error_message) ==
    [chat_file |-> st.chat_file,
     character_file |-> CharacterFile(st.chat_file),
     messages_scanned |-> messages_scanned,
     entities_found |-> entities_found,
     status |-> status,
     error_message |-> error_message]

\* add_scan_record by the task p; the task remembers the row it wrote
AddScanRecord(p, row, pc) ==
    /\ scan_history' = Append(scan_history, row)
    /\ scan' = [scan EXCEPT ![p] =
          [@ EXCEPT !.record = Len(scan_history) + 1, !.pc = pc]]

\* the 'completed' record of a scan that processed chunks
RecordCompleted(p) ==
    /\ scan[p].pc = "record"
    /\ \/ /\ scan' = [scan EXCEPT ![p].pc = "except"]
          /\ UNCHANGED scan_history
       \/ AddScanRecord(p,
             HistoryRow(scan[p],
                scan[p].metadata.end_index - scan[p].metadata.start_index,
                TotalEntities(scan[p].all_entities), "completed", "None"),
             "finally")
    /\ UNCHANGED <<now, active_scans, config, messages, checkpoint,
                   entity_queue, reclaimed>>

\* the 'completed' record of a scan that found no chunks
NoopRecord(p) ==
    /\ scan[p].pc = "noop_record"
    /\ \/ /\ scan' = [scan EXCEPT ![p].pc = "except"]
          /\ UNCHANGED scan_history
       \/ AddScanRecord(p,
             HistoryRow(scan[p], 0, 0, "completed",
                        "No new messages to scan (checkpoint up to date)"),
             "finally")
    /\ UNCHANGED <<now, active_scans, config, messages, checkpoint,
                   entity_queue, reclaimed>>

\* the except clause: the 'failed' record, whose write may raise as well
RecordFailed(p) ==
    /\ scan[p].pc = "except"
    /\ \/ /\ scan' = [scan EXCEPT ![p].pc = "finally"]
          /\ UNCHANGED scan_history
       \/ AddScanRecord(p,
             HistoryRow(scan[p], 0, 0, "failed", "str(e)"), "finally")
    /\ UNCHANGED <<now, active_scans, config, messages, checkpoint,
                   entity_queue, reclaimed>>

\* the finally clause; run_scan returns and its local state is gone
ReleaseScanLock(p) ==
    /\ scan[p].pc = "finally"
    /\ active_scans' = ReleaseTable(active_scans, scan[p].chat_file)
    /\ scan' = [scan EXCEPT ![p] = [IdleScan EXCEPT !.pc = "done"]]
    /\ UNCHANGED <<now, config, messages, checkpoint, entity_queue,
                   scan_history, reclaimed>>

\* time passes; the clock is read only to stamp and to age lock entries, so
\* the steps of the clock are taken while some entry exists; a step is half
\* the staleness threshold, so an entry is fresh after one and stale after two
TickSeconds == StaleSeconds \div 2

Tick ==
    /\ now + TickSeconds <= MaxTime
    /\ \E s \in Sources : active_scans[s] # NoLock
    /\ now' = now + TickSeconds
    /\ UNCHANGED <<active_scans, config, messages, checkpoint, entity_queue,
                   scan_history, scan, reclaimed>>

\* the chat goes on: a message is appended to the chat file of a live chat
AppendMessage(s) ==
    /\ s \in LiveChats
    /\ SumOver(messages, Sources) < SumOver(InitMessages, Sources) + MaxAppends
    /\ messages' = [messages EXCEPT ![s] = @ + 1]
    /\ UNCHANGED <<now, active_scans, config, checkpoint, entity_queue,
                   scan_history, scan, reclaimed>>

Next ==
    \/ \E p \in Procs, s \in Sources, f \in BOOLEAN :
          StartScan(p, s, f) /\ UNCHANGED harness
    \/ \E p \in Procs : GetCheckpoint(p) /\ UNCHANGED harness
    \/ \E p \in Procs : Extract(p) /\ UNCHANGED harness
    \/ \E p \in Procs : AddEntity(p) /\ UNCHANGED harness
    \/ \E p \in Procs : UpdateCheckpoint(p) /\ UNCHANGED harness
    \/ \E p \in Procs : RecordCompleted(p) /\ UNCHANGED harness
    \/ \E p \in Procs : NoopRecord(p) /\ UNCHANGED harness
    \/ \E p \in Procs : RecordFailed(p) /\ UNCHANGED harness
    \/ \E p \in Procs : ReleaseScanLock(p) /\ UNCHANGED harness
    \/ Tick /\ UNCHANGED harness
    \/ \E s \in Sources : AppendMessage(s) /\ UNCHANGED harness

Spec == Init /\ [][Next]_vars

\* ------------------------------------------------------------------------
\* Properties of the scan lock
\* ------------------------------------------------------------------------
Holders(s) == {p \in Procs : scan[p].pc \in Holding /\ scan[p].chat_file = s}

FreshConflict(p) ==
    /\ scan[p].pc = "idle" /\ scan'[p].pc # "idle"
    /\ active_scans[scan'[p].chat_file] # NoLock
    /\ now - active_scans[scan'[p].chat_file] < StaleSeconds

C3Theorem ==
    /\ [][\A p \in Procs :
              scan[p].pc \in Holding /\ scan'[p].pc \notin Holding =>
                  /\ scan[p].pc = "finally"
                  /\ scan'[p].pc = "done"
                  /\ active_scans'[scan[p].chat_file] = NoLock]_vars
    /\ [](\A p \in Procs :
              (scan[p].total # -1 \/ scan[p].chunk_idx > 0) =>
                  scan[p].pc \in Holding)

\* a run_scan has returned without any scan record having been written (the
\* write of its 'failed' record raised) and the lock of every source is free
C3Witness ==
    /\ \E p \in Procs : scan[p].pc = "done"
    /\ \A p \in Procs : scan[p].pc \in {"done", "idle"}
    /\ scan_history = <<>>
    /\ \A s \in Sources : active_scans[s] = NoLock

\* ------------------------------------------------------------------------
\* Properties of the checkpoint and of the scan
\* ------------------------------------------------------------------------
\* the number of chunks the spec's algorithm cuts [S, N) into (S < N): the
\* first k whose chunk [S + (k-1)(C-O), ...) ends at N
ChunkCount(N, S, C, O) ==
    CHOOSE k \in 1..(N - S) :
        /\ S + (k - 1) * (C - O) + C >= N
        /\ \A j \in 1..(k - 1) : S + (j - 1) * (C - O) + C < N

\* the k-th chunk (k >= 1) of the spec's algorithm
ChunkAt(N, S, C, O, k) ==
    <<S + (k - 1) * (C - O), Min(S + (k - 1) * (C - O) + C, N)>>

\* the index a checkpoint row stands for
IndexOf(cp) == IF cp = NoCheckpoint THEN 0 ELSE cp.last_processed_index

\* the step in which get_chunks_to_process returns to the task p
Windowed(p) ==
    /\ scan[p].pc \in {"idle", "get_checkpoint"}
    /\ scan'[p].pc \in {"extract", "noop_record"}

\* the step in which the task p stores its checkpoint
Checkpointed(p) ==
    /\ scan[p].pc = "update_checkpoint"
    /\ scan'[p].pc = "record"

\* C5: when [S, N) would give more than M chunks, the scan gets exactly the
\* first M chunks and end_index = min(S + M(C-O), N); the checkpoint the scan
\* writes is its end_index, and an incremental scan starts its first chunk
\* at the stored checkpoint.
C5Theorem ==
    /\ [](\A p \in Procs :
            (scan[p].metadata # NotRun /\ scan[p].chunks # <<>>) =>
                LET N == scan[p].metadata.total_messages
                    S == scan[p].metadata.start_index
                    C == config.chunk_size
                    O == config.overlap
                    M == config.max_chunks
                IN  ChunkCount(N, S, C, O) > M =>
                        /\ Len(scan[p].chunks) = M
                        /\ \A k \in 1..M :
                              scan[p].chunks[k] = ChunkAt(N, S, C, O, k)
                        /\ scan[p].metadata.end_index
                             = Min(S + M * (C - O), N))
    /\ [][\A p \in Procs : Checkpointed(p) =>
              checkpoint'[scan[p].chat_file].last_processed_index
                = scan[p].metadata.end_index]_vars
    /\ [][\A p \in Procs :
              (Windowed(p) /\ ~scan'[p].force_rescan) =>
                  /\ scan'[p].metadata.start_index
                       = IndexOf(checkpoint[scan'[p].chat_file])
                  /\ scan'[p].chunks # <<>> =>
                        scan'[p].chunks[1][1]
                          = IndexOf(checkpoint[scan'[p].chat_file])]_vars

\* a capped scan of 4 messages stored the checkpoint 2 and the next
\* incremental scan has its first chunk start at 2
C5Witness ==
    \E p \in Procs :
        /\ scan[p].chat_file = "s1" /\ ~scan[p].force_rescan
        /\ checkpoint["s1"] = [last_processed_index |-> 2, total_messages |-> 4]
        /\ scan[p].cp_read = checkpoint["s1"]
        /\ scan[p].chunks # <<>>
        /\ scan[p].chunks[1][1] = 2

CheckpointInRange ==
    \A s \in Sources :
        checkpoint[s] # NoCheckpoint =>
            /\ 0 <= checkpoint[s].last_processed_index
            /\ checkpoint[s].last_processed_index
                 <= checkpoint[s].total_messages

\* C6 as stated: the index stored by any completed scan, forced or not, is
\* >= the index stored before that scan, and 0 <= index <= total in every
\* state.
C6Original ==
    /\ [][\A p \in Procs : Checkpointed(p) =>
              checkpoint'[scan[p].chat_file].last_processed_index
                >= IndexOf(scan[p].cp_before)]_vars
    /\ []CheckpointInRange

\* C6 amended: the index stored by a completed incremental scan (force_rescan
\* false) is >= the stored index that scan read at its start; a forced
\* rescan may lower it; 0 <= index <= total in every state.
C6Theorem ==
    /\ [][\A p \in Procs :
              (Checkpointed(p) /\ ~scan[p].force_rescan) =>
                  checkpoint'[scan[p].chat_file].last_processed_index
                    >= IndexOf(scan[p].cp_read)]_vars
    /\ []CheckpointInRange

\* an incremental scan that started from a stored checkpoint has stored a
\* larger one
C6Witness ==
    \E p \in Procs :
        /\ scan[p].pc = "record" /\ ~scan[p].force_rescan
        /\ scan[p].cp_read # NoCheckpoint
        /\ checkpoint[scan[p].chat_file].last_processed_index
             > scan[p].cp_read.last_processed_index

\* C7: the checkpoint table changes only in the step of a scan that has
\* processed all its chunks and queued all its merged entities, a scan comes
\* to that step at most once, and a step that takes a scan into its except
\* clause before that leaves the table as it was.
C7Theorem ==
    /\ [][\A s \in Sources :
              checkpoint'[s] # checkpoint[s] =>
                  \E p \in Procs :
                      /\ scan[p].chat_file = s
                      /\ Checkpointed(p)
                      /\ scan[p].chunk_idx = Len(scan[p].chunks)
                      /\ scan[p].q_idx = Len(Flatten(scan[p].all_entities))]_vars
    /\ [][\A p \in Procs :
              (scan'[p].pc = "update_checkpoint"
                 /\ scan[p].pc # "update_checkpoint") =>
                  scan[p].pc \in {"extract", "add_entity"}]_vars
    /\ [][\A p \in Procs :
              (scan'[p].pc = "except"
                 /\ scan[p].pc \in {"idle", "get_checkpoint", "add_entity",
                                    "update_checkpoint"}) =>
                  checkpoint' = checkpoint]_vars

\* a scan failed after it had queued an entity and the checkpoint of its
\* source is the one stored when it started
C7Witness ==
    \E p \in Procs :
        /\ scan[p].pc = "except"
        /\ scan[p].q_idx >= 1
        /\ scan[p].chunk_idx = Len(scan[p].chunks)
        /\ checkpoint[scan[p].chat_file] = scan[p].cp_before

\* the scan of p found nothing to do: no chunk, no oracle call, no queueing
NoOp(st) ==
    /\ st.pc = "noop_record"
    /\ st.chunks = <<>>
    /\ st.chunk_idx = 0 /\ st.errors = <<>>
    /\ st.q_idx = 0

\* a no-op scan leaves the checkpoint and the queue alone and the record it
\* writes is a 'completed' one
NoOpEnds ==
    \A p \in Procs :
        (scan[p].pc = "noop_record" /\ scan'[p].pc # "noop_record") =>
            /\ UNCHANGED <<checkpoint, entity_queue>>
            /\ scan'[p].pc \in {"finally", "except"}
            /\ scan'[p].pc = "finally" =>
                  /\ Len(scan_history') = Len(scan_history) + 1
                  /\ scan_history'[Len(scan_history')].status = "completed"
                  /\ scan_history'[Len(scan_history')].entities_found = 0

C9Theorem ==
    /\ [][\A p \in Procs :
              (scan[p].pc = "extract" /\ scan'[p] # scan[p]) =>
                  /\ scan'[p].chunk_idx = scan[p].chunk_idx + 1
                  /\ scan'[p].pc # "except"
                  /\ (scan'[p].pc = "extract")
                       = (scan'[p].chunk_idx < Len(scan[p].chunks))
                  /\ scan'[p].errors # scan[p].errors =>
                        scan'[p].all_entities = scan[p].all_entities]_vars
    /\ [][\A p \in Procs :
              (scan[p].pc = "record" /\ scan'[p].pc = "finally") =>
                  /\ scan[p].chunk_idx = Len(scan[p].chunks)
                  /\ Len(scan_history') = Len(scan_history) + 1
                  /\ scan_history'[Len(scan_history')].status = "completed"
                  /\ scan_history'[Len(scan_history')].entities_found
                       = Cardinality(scan[p].merged_keys)]_vars

\* a scan whose first chunk raised and whose second chunk gave two entities
\* has written a 'completed' record with entities_found = 2
C9Witness ==
    \E p \in Procs :
        /\ scan[p].pc = "finally"
        /\ scan[p].errors = <<1>>
        /\ Len(scan[p].chunks) = 2
        /\ scan[p].record # 0
        /\ scan_history[scan[p].record].status = "completed"
        /\ scan_history[scan[p].record].entities_found = 2

\* ------------------------------------------------------------------------
\* Properties of the failure paths of run_scan
\* ------------------------------------------------------------------------
\* the step in which read_chat raises in the scan of p
ReadFails(p) ==
    /\ scan[p].pc = "idle"
    /\ scan'[p].pc = "except"

\* the scan of p is in its except or finally clause after read_chat raised
ReadFailed(st) ==
    /\ st.pc \in {"except", "finally"}
    /\ st.total = -1

CheckpointFails(p) ==
    /\ scan[p].pc = "update_checkpoint"
    /\ scan'[p].pc = "except"

\* the merged entity item of the scan st has its row in the review queue
Queued(st, item) ==
    \E i \in 1..Len(entity_queue) :
        /\ entity_queue[i].entity_name = QueueRow(st, item).entity_name
        /\ entity_queue[i].entity_type = QueueRow(st, item).entity_type
        /\ entity_queue[i].target_file = QueueRow(st, item).target_file

\* every merged entity of the scan st is queued
AllQueued(st) ==
    \A k \in 1..Len(Flatten(st.all_entities)) :
        Queued(st, Flatten(st.all_entities)[k])

\* the scan of p is in its except or finally clause with every chunk merged
\* and every merged entity handed over
FailedAfterMerge(st) ==
    /\ st.pc \in {"except", "finally"}
    /\ st.chunks # <<>> /\ st.chunk_idx = Len(st.chunks)
    /\ st.q_idx = Len(Flatten(st.all_entities))

NewRows ==
    {i \in 1..Len(scan_history') : i > Len(scan_history)}

\* the task ends its attempt: the finally clause of a scan, or the return
\* of an attempt that was refused the lock
Ends(p) ==
    \/ scan[p].pc = "finally" /\ scan'[p].pc = "done"
    \/ scan[p].pc = "idle" /\ scan'[p].pc = "skipped"

\* C22 as stated: an attempt that is not skipped has written exactly one
\* record when it ends, 'completed' or 'failed', with a message; a skipped
\* attempt writes none.
C22Original ==
    [][\A p \in Procs :
          /\ (scan[p].pc = "idle" /\ scan'[p].pc = "skipped") =>
                UNCHANGED scan_history
          /\ (scan'[p] # scan[p] /\ NewRows # {}) => scan[p].record = 0
          /\ (scan[p].pc = "finally" /\ scan'[p].pc = "done") =>
                /\ scan[p].record # 0
                /\ scan_history[scan[p].record].status
                      \in {"completed", "failed"}
                /\ scan_history[scan[p].record].error_message # "None"]_vars

\* what the code does: a skipped attempt writes no record; a scan writes
\* at most one, and none only when the write of the record raised; the
\* record of a failed scan carries str(e), the 'completed' record of a scan
\* without chunks carries the fixed message, and the 'completed' record of a
\* scan that processed chunks carries no message.
C22Theorem ==
    [][\A p \in Procs :
          /\ (scan[p].pc = "idle" /\ scan'[p].pc = "skipped") =>
                UNCHANGED scan_history
          /\ (scan'[p] # scan[p] /\ NewRows # {}) =>
                /\ scan[p].record = 0
                /\ NewRows = {scan'[p].record}
                /\ scan[p].pc \in {"record", "noop_record", "except"}
          /\ (scan[p].pc \in {"record", "noop_record"}
                /\ scan'[p].pc = "finally") => NewRows # {}
          /\ (scan[p].pc = "finally" /\ scan'[p].pc = "done"
                /\ scan[p].record # 0) =>
                LET row == scan_history[scan[p].record]
                IN  /\ row.chat_file = scan[p].chat_file
                    /\ row.status \in {"completed", "failed"}
                    /\ row.status = "failed" => row.error_message = "str(e)"
                    /\ (row.status = "completed" /\ scan[p].chunks = <<>>) =>
                          row.error_message =
                             "No new messages to scan (checkpoint up to date)"
                    /\ (row.status = "completed" /\ scan[p].chunks # <<>>) =>
                          row.error_message = "None"]_vars

\* a scan that processed its chunks is in its finally clause with its
\* 'completed' record, which has no message
C22Witness ==
    \E p \in Procs :
        /\ scan[p].pc = "finally" /\ scan[p].chunks # <<>>
        /\ scan[p].record # 0
        /\ scan_history[scan[p].record].status = "completed"
        /\ scan_history[scan[p].record].error_message = "None"

\* ------------------------------------------------------------------------
\* SpecWindow: get_chunks_to_process applied to bounded inputs
\* ------------------------------------------------------------------------
Scenario47 == [N |-> 47, cp |-> NoCheckpoint, force |-> FALSE,
               C |-> 20, O |-> 5, M |-> 10]

WinInputs ==
    {[N |-> n, cp |-> c, force |-> f, C |-> cs, O |-> o, M |-> m] :
        n \in 0..MaxWinN,
        c \in {NoCheckpoint} \cup
              {[last_processed_index |-> i, total_messages |-> MaxWinN] :
                  i \in 0..MaxWinN},
        f \in BOOLEAN,
        cs \in 1..MaxWinC,
        o \in 0..(MaxWinC - 1),
        m \in 1..MaxWinM}

InitWindow ==
    /\ NoScans
    /\ config \in Configs
    /\ win \in {i \in WinInputs : i.O < i.C} \cup {Scenario47}
    /\ wout = NotRun
    /\ mrg_in = NotRun /\ mrg_out = NotRun
    /\ flt_in = NotRun /\ flt_out = NotRun
    /\ ext_in = NotRun /\ ext_out = NotRun
    /\ caller = NotRun

WindowRun ==
    /\ wout = NotRun
    /\ wout' = get_chunks_to_process(win.N, win.cp, win.force,
                                     win.C, win.O, win.M)
    /\ UNCHANGED <<win, mrg_in, mrg_out, flt_in, flt_out, ext_in, ext_out,
                   caller>>
    /\ UNCHANGED scanVars

NextWindow == WindowRun

SpecWindow == InitWindow /\ [][NextWindow]_vars

\* ------------------------------------------------------------------------
\* Properties of the windower
\* ------------------------------------------------------------------------
\* the messages two slices share
Shared(a, b) == {i \in a[1]..(a[2] - 1) : b[1] <= i /\ i < b[2]}

\* C4: when the cap is not exceeded, get_chunks_to_process returns for a
\* start S < N the slices [S + k(C-O), min(S + k(C-O) + C, N)), k = 0, 1, ...,
\* up to the first one that ends at N: consecutive chunks share exactly O
\* messages, every index of [S, N) is covered and no chunk ends beyond N.
C4Theorem ==
    wout # NotRun =>
        LET N == win.N
            S == StartIndex(win.cp, win.force)
            C == win.C
            O == win.O
        IN  (S < N /\ ChunkCount(N, S, C, O) <= win.M) =>
                /\ wout.start_index = S
                /\ Len(wout.chunks) = ChunkCount(N, S, C, O)
                /\ \A k \in 1..Len(wout.chunks) :
                       /\ wout.chunks[k] = ChunkAt(N, S, C, O, k)
                       /\ wout.chunks[k][2] <= N
                       /\ (wout.chunks[k][2] = N) = (k = Len(wout.chunks))
                /\ \A k \in 1..(Len(wout.chunks) - 1) :
                       Cardinality(Shared(wout.chunks[k], wout.chunks[k + 1]))
                         = O
                /\ \A i \in S..(N - 1) :
                       \E k \in 1..Len(wout.chunks) :
                          wout.chunks[k][1] <= i /\ i < wout.chunks[k][2]

\* the scenario of 47 messages: the chunks [0,20), [15,35), [30,47)
C4Witness ==
    /\ win = Scenario47
    /\ wout # NotRun
    /\ wout.chunks = <<(<<0, 20>>), (<<15, 35>>), (<<30, 47>>)>>


\* ------------------------------------------------------------------------
\* SpecMerge: _merge_and_deduplicate applied to bounded candidate batches
\* ------------------------------------------------------------------------
MaxDescLen == 2

DescChars == {"g", "G", "b", " "}

Strings(chars, n) == UNION {[1..k -> chars] : k \in 0..n}

MergeNames == {<<" ", "a">>, <<"A", " ">>, <<"b">>}

MergeConfidences == {4, 9}

\* candidates without a description
BareCandidates ==
    {[name |-> n, confidence |-> c] :
        n \in MergeNames, c \in MergeConfidences}

MergeCandidates ==
    {[name |-> n, confidence |-> c, description |-> d] :
        n \in MergeNames, c \in MergeConfidences,
        d \in Strings(DescChars, MaxDescLen)}
    \cup BareCandidates

\* the output of one chunk: a single candidate of the given type
OneCandidate(entity_type, entity) ==
    [EmptyEntities EXCEPT ![entity_type] = <<entity>>]

InitMerge ==
    /\ NoScans
    /\ config \in Configs
    /\ win = NotRun /\ wout = NotRun
    /\ flt_in = NotRun /\ flt_out = NotRun
    /\ ext_in = NotRun /\ ext_out = NotRun
    /\ caller = NotRun
    /\ mrg_in \in {<<OneCandidate("npcs", e1), OneCandidate("npcs", e2)>> :
                      e1 \in MergeCandidates, e2 \in MergeCandidates}
                  \cup {<<OneCandidate("npcs", e1), OneCandidate("factions", e2)>> :
                      e1 \in BareCandidates, e2 \in BareCandidates}
    /\ mrg_out = NotRun

MergeRun ==
    /\ mrg_out = NotRun
    /\ mrg_out' = _merge_and_deduplicate(mrg_in)
    /\ UNCHANGED <<win, wout, mrg_in, flt_in, flt_out, ext_in, ext_out,
                   caller>>
    /\ UNCHANGED scanVars

NextMerge == MergeRun

SpecMerge == InitMerge /\ [][NextMerge]_vars

\* ------------------------------------------------------------------------
\* Properties of the merge engine
\* ------------------------------------------------------------------------
\* the candidates of a batch sequence in arrival order, with their types
RECURSIVE ArrivalsFrom(_, _)
ArrivalsFrom(all_chunk_entities, c) ==
    IF c > Len(all_chunk_entities) THEN <<>>
    ELSE Flatten(all_chunk_entities[c])
         \o ArrivalsFrom(all_chunk_entities, c + 1)

Arrivals == ArrivalsFrom(mrg_in, 1)

NormName(e) == Strip(Lower(e.name))

Desc(e) == Get(e, "description", <<>>)

\* the two candidates of mrg_in collide: same type, names equal ignoring
\* case and surrounding whitespace
Collision ==
    /\ mrg_out # NotRun
    /\ Len(Arrivals) = 2
    /\ Arrivals[1].entity_type = Arrivals[2].entity_type
    /\ NormName(Arrivals[1].entity) = NormName(Arrivals[2].entity)

ContainsCI(hay, needle) == Contains(Lower(hay), Lower(needle))

\* C10 as stated: a collision gives exactly one entity, with the maximum of
\* the two confidences and a description that contains both input
\* descriptions case-insensitively.
C10Original ==
    Collision =>
        LET old == Arrivals[1].entity
            new == Arrivals[2].entity
            out == mrg_out[Arrivals[1].entity_type]
        IN  /\ Len(out) = 1
            /\ out[1].confidence = Max(old.confidence, new.confidence)
            /\ ContainsCI(Desc(out[1]), Desc(old))
            /\ ContainsCI(Desc(out[1]), Desc(new))

\* C10 amended: a collision gives exactly one entity, with the maximum of
\* the two confidences; its description is the old one when the new one is
\* empty or a case-insensitive substring of the old, otherwise old, a space
\* and new with the surrounding whitespace of the whole stripped, and so
\* contains both input descriptions up to their surrounding whitespace.
C10Theorem ==
    Collision =>
        LET old == Arrivals[1].entity
            new == Arrivals[2].entity
            out == mrg_out[Arrivals[1].entity_type]
        IN  /\ Len(out) = 1
            /\ out[1].confidence = Max(old.confidence, new.confidence)
            /\ ContainsCI(Desc(out[1]), Strip(Desc(old)))
            /\ ContainsCI(Desc(out[1]), Strip(Desc(new)))
            /\ IF Desc(new) = <<>> \/ ContainsCI(Desc(old), Desc(new))
               THEN Desc(out[1]) = Desc(old)
               ELSE Desc(out[1]) = Strip(Desc(old) \o <<" ">> \o Desc(new))

\* two colliding candidates with different descriptions, neither inside the
\* other, were merged into one entity that holds both
C10Witness ==
    /\ Collision
    /\ Desc(Arrivals[1].entity) = <<"g">>
    /\ Desc(Arrivals[2].entity) = <<"b">>
    /\ Arrivals[1].entity.confidence < Arrivals[2].entity.confidence
    /\ Desc(mrg_out["npcs"][1]) = <<"g", " ", "b">>
    /\ mrg_out["npcs"][1].confidence = 9

\* ------------------------------------------------------------------------
\* SpecFold: _merge_and_deduplicate applied to batches of typed candidates
\* as _validate_entities passes them on (name, confidence and mentions set)
\* ------------------------------------------------------------------------
MaxFold == 3

Typed(entity_type, entity) == [entity_type |-> entity_type, entity |-> entity]

FoldPool ==
    { Typed("npcs", [name |-> <<"a">>, confidence |-> 4, mentions |-> 1]),
      Typed("npcs", [name |-> <<"a">>, confidence |-> 9, mentions |-> 2,
                     relationship |-> "x"]),
      Typed("npcs", [name |-> <<"a">>, confidence |-> 4, mentions |-> 1,
                     description |-> <<"g">>]),
      Typed("npcs", [name |-> <<"A", " ">>, confidence |-> 9, mentions |-> 1]),
      Typed("npcs", [name |-> <<"A", " ">>, confidence |-> 4, mentions |-> 1,
                     relationship |-> "y"]),
      Typed("npcs", [name |-> <<"A", " ">>, confidence |-> 9, mentions |-> 2,
                     description |-> <<"g", "b">>]),
      Typed("npcs", [name |-> <<"b">>, confidence |-> 4, mentions |-> 1]),
      Typed("factions", [name |-> <<"a">>, confidence |-> 4, mentions |-> 1,
                         relationship |-> "y"]) }

\* the batch (type -> list) holding the typed candidates items[i..], in order
RECURSIVE BatchFrom(_, _)
BatchFrom(items, i) ==
    IF i > Len(items) THEN EmptyEntities
    ELSE [BatchFrom(items, i + 1) EXCEPT
             ![items[i].entity_type] = <<items[i].entity>> \o @]

\* items cut into consecutive batches after the positions in cuts
RECURSIVE BatchesFrom(_, _, _)
BatchesFrom(items, cuts, from) ==
    IF from > Len(items) THEN <<>>
    ELSE LET later == {c \in cuts : c >= from}
             to == IF later = {} THEN Len(items)
                   ELSE CHOOSE c \in later : \A d \in later : c <= d
         IN  <<BatchFrom(SubSeq(items, from, to), 1)>>
             \o BatchesFrom(items, cuts, to + 1)

InitFold ==
    /\ NoScans
    /\ config \in Configs
    /\ win = NotRun /\ wout = NotRun
    /\ flt_in = NotRun /\ flt_out = NotRun
    /\ ext_in = NotRun /\ ext_out = NotRun
    /\ caller = NotRun
    /\ mrg_in \in {BatchesFrom(items, cuts, 1) :
                      items \in [1..MaxFold -> FoldPool],
                      cuts \in {{}, {MaxFold - 1}}}
    /\ mrg_out = NotRun

FoldRun ==
    /\ mrg_out = NotRun
    /\ mrg_out' = _merge_and_deduplicate(mrg_in)
    /\ UNCHANGED <<win, wout, mrg_in, flt_in, flt_out, ext_in, ext_out,
                   caller>>
    /\ UNCHANGED scanVars

NextFold == FoldRun

SpecFold == InitFold /\ [][NextFold]_vars

\* ------------------------------------------------------------------------
\* Properties of the fold
\* ------------------------------------------------------------------------
Range(seq) == {seq[i] : i \in 1..Len(seq)}

\* the dedup key of a typed candidate or of a typed merged entity
KeyOf(a) == <<a.entity_type, NormName(a.entity)>>

Keys(items) == {KeyOf(items[i]) : i \in 1..Len(items)}

\* the positions of items that hold the key k
Group(items, k) == {i \in 1..Len(items) : KeyOf(items[i]) = k}

RECURSIVE SumMentions(_, _)
SumMentions(items, I) ==
    IF I = {} THEN 0
    ELSE LET i == CHOOSE j \in I : TRUE
         IN  Get(items[i].entity, "mentions", 1)
               + SumMentions(items, I \ {i})

MaxConfidence(items, I) ==
    CHOOSE c \in {items[i].entity.confidence : i \in I} :
        \A i \in I : items[i].entity.confidence <= c

\* the first position of the group of k whose candidate carries attribute c
\* (0: none does)
FirstWith(items, k, c) ==
    LET hits == {i \in Group(items, k) : c \in DOMAIN items[i].entity}
    IN  IF hits = {} THEN 0
        ELSE CHOOSE i \in hits : \A j \in hits : i <= j

\* every order of the candidates of mrg_in, as one batch and as a batch of
\* the first candidate followed by a batch of the others
FoldOrders ==
    LET items == Arrivals
        n == Len(items)
    IN  {BatchesFrom([i \in 1..n |-> items[perm[i]]], cuts, 1) :
            perm \in Permutations(1..n), cuts \in {{}, {1}}}

\* out holds one entity per key of items, with the maximum confidence and
\* the summed mentions of the key's candidates
FoldedScalars(out, items) ==
    /\ Keys(Flatten(out)) = Keys(items)
    /\ \A x \in Range(Flatten(out)) :
          /\ x.entity.confidence = MaxConfidence(items, Group(items, KeyOf(x)))
          /\ x.entity.mentions = SumMentions(items, Group(items, KeyOf(x)))

\* a and b are the same merged set as far as keys, confidence, mentions and
\* the copied attributes go
SameScalars(a, b) ==
    /\ Keys(Flatten(a)) = Keys(Flatten(b))
    /\ \A x \in Range(Flatten(a)), y \in Range(Flatten(b)) :
          KeyOf(x) = KeyOf(y) =>
              /\ x.entity.confidence = y.entity.confidence
              /\ x.entity.mentions = y.entity.mentions
              /\ \A c \in Range(CopiedKeys) :
                    /\ (c \in DOMAIN x.entity) = (c \in DOMAIN y.entity)
                    /\ c \in DOMAIN x.entity => x.entity[c] = y.entity[c]

\* C11 as stated: folding the candidates in any order and batching gives
\* the same keys and, for each key, the same confidence, mention count and
\* scalar attribute values.
C11Original ==
    mrg_out # NotRun =>
        \A o \in FoldOrders : SameScalars(mrg_out, _merge_and_deduplicate(o))

\* C11 amended: folding the candidates in any order and batching gives
\* the same keys and, for each key, the same confidence (the maximum) and
\* mention count (the sum); a copied attribute is present exactly when some
\* candidate of the key carries it, and its value is that of the first such
\* candidate in the order folded, so it is the same in every order only when
\* the candidates that carry it agree.
C11Theorem ==
    mrg_out # NotRun =>
        /\ FoldedScalars(mrg_out, Arrivals)
        /\ \A o \in FoldOrders :
              LET out == _merge_and_deduplicate(o)
                  items == ArrivalsFrom(o, 1)
              IN  /\ FoldedScalars(out, items)
                  /\ \A x \in Range(Flatten(out)), c \in Range(CopiedKeys) :
                        LET f == FirstWith(items, KeyOf(x), c)
                        IN  IF f = 0 THEN c \notin DOMAIN x.entity
                            ELSE /\ c \in DOMAIN x.entity
                                 /\ x.entity[c] = items[f].entity[c]

\* three candidates, two of them colliding under differently spelled names
\* and confidences 4 and 9, were folded into two entities
C11Witness ==
    /\ mrg_out # NotRun
    /\ Len(mrg_in) = 2
    /\ Len(mrg_out["npcs"]) = 2
    /\ Arrivals[1].entity = [name |-> <<"a">>, confidence |-> 4, mentions |-> 1]
    /\ Arrivals[2].entity.name = <<"b">>
    /\ Arrivals[3].entity = [name |-> <<"A", " ">>, confidence |-> 4,
                             mentions |-> 1, relationship |-> "y"]
    /\ mrg_out["npcs"][1] = [name |-> <<"a">>, confidence |-> 4,
                             mentions |-> 2, relationship |-> "y"]

\* C12: in the merged set no two entities of one type list have names equal
\* after lowercasing and trimming, every (type, normalized name) key of the
\* input is held by exactly one entity, and an entity is merged from the
\* candidates of its own type and normalized name only.
C12Theorem ==
    mrg_out # NotRun =>
        LET out == Flatten(mrg_out)
        IN  /\ \A t \in Range(EntityTypes) :
                  \A i, j \in 1..Len(mrg_out[t]) :
                      i # j => NormName(mrg_out[t][i]) # NormName(mrg_out[t][j])
            /\ \A k \in Keys(Arrivals) : Cardinality(Group(out, k)) = 1
            /\ \A x \in Range(out) :
                  /\ KeyOf(x) \in Keys(Arrivals)
                  /\ LET I == Group(Arrivals, KeyOf(x))
                     IN  x.entity.mentions
                           = IF Cardinality(I) = 1
                             THEN CHOOSE m \in {Arrivals[i].entity.mentions : i \in I} : TRUE
                             ELSE SumMentions(Arrivals, I)

\* an npc "a", an npc "A " and a faction "a" were folded into one npc with
\* the mentions of the two npcs and one faction with its own
C12Witness ==
    /\ mrg_out # NotRun
    /\ Len(mrg_out["npcs"]) = 1 /\ Len(mrg_out["factions"]) = 1
    /\ Keys(Arrivals) = {<<"npcs", <<"a">>>>, <<"factions", <<"a">>>>}
    /\ mrg_out["npcs"][1].mentions = 3
    /\ mrg_out["factions"][1].mentions = 1
    /\ \E i \in 1..Len(Arrivals) : Arrivals[i].entity.name = <<"A", " ">>

\* ------------------------------------------------------------------------
\* HallucinationDetector (hallucination_detector.py)
\* Strings are sequences of characters; the names and texts used below are
\* made of letters and blanks, for which \b is the edge of a blank-separated
\* word and \w+ is such a word.  Risks and confidences are in tenths.
\* ------------------------------------------------------------------------
\* str.count: the non-overlapping occurrences of needle in hay from i on
RECURSIVE OccurrencesFrom(_, _, _)
OccurrencesFrom(hay, needle, i) ==
    IF needle = <<>> THEN Len(hay) - i + 2
    ELSE IF i + Len(needle) - 1 > Len(hay) THEN 0
    ELSE IF SubSeq(hay, i, i + Len(needle) - 1) = needle
         THEN 1 + OccurrencesFrom(hay, needle, i + Len(needle))
         ELSE OccurrencesFrom(hay, needle, i + 1)

Count(hay, needle) == OccurrencesFrom(hay, needle, 1)

\* str.split(): the blank-separated words of s from i on, word being the
\* word read so far
RECURSIVE SplitFrom(_, _, _)
SplitFrom(s, i, word) ==
    IF i > Len(s) THEN (IF word = <<>> THEN <<>> ELSE <<word>>)
    ELSE IF IsSpace(s[i])
         THEN (IF word = <<>> THEN <<>> ELSE <<word>>)
              \o SplitFrom(s, i + 1, <<>>)
         ELSE SplitFrom(s, i + 1, Append(word, s[i]))

Split(s) == SplitFrom(s, 1, <<>>)

\* a name check that looks for the significant tokens only, never for the
\* whole name
NameInSourceTokens(name, source) ==
    LET source_lower == Lower(source)
        words == Split(Lower(name))
        significant_words == {i \in 1..Len(words) : Len(words[i]) > 3}
        found == Cardinality({i \in significant_words :
                                 Contains(source_lower, words[i])})
    IN  IF significant_words = {} THEN FALSE
        ELSE 2 * found >= Cardinality(significant_words)

\* _name_in_source
_name_in_source(name, source) ==
    LET name_lower == Lower(name)
        source_lower == Lower(source)
        words == Split(name_lower)
        significant_words == {i \in 1..Len(words) : Len(words[i]) > 3}
        found == Cardinality({i \in significant_words :
                                 Contains(source_lower, words[i])})
    IN  IF Contains(source_lower, name_lower) THEN TRUE
        ELSE IF significant_words = {} THEN FALSE
        ELSE 2 * found >= Cardinality(significant_words)

Adjectives ==
    {<<"g", "r", "e", "a", "t">>,
     <<"m", "i", "g", "h", "t", "y">>,
     <<"t", "e", "r", "r", "i", "b", "l", "e">>,
     <<"m", "a", "g", "n", "i", "f", "i", "c", "e", "n", "t">>,
     <<"d", "r", "e", "a", "d">>}

Titles ==
    {<<"k", "i", "n", "g">>,
     <<"q", "u", "e", "e", "n">>,
     <<"l", "o", "r", "d">>,
     <<"d", "u", "k", "e">>,
     <<"b", "a", "r", "o", "n">>}

TheWord == <<"t", "h", "e">>

OfWord == <<"o", "f">>

\* phrase occurs in s as whole words
WholeWords(s, phrase) ==
    \E i \in 1..(Len(s) - Len(phrase) + 1) :
        /\ SubSeq(s, i, i + Len(phrase) - 1) = phrase
        /\ i = 1 \/ IsSpace(s[i - 1])
        /\ i + Len(phrase) - 1 = Len(s) \/ IsSpace(s[i + Len(phrase)])

\* suspicious_patterns: which of the three patterns re.search finds in s
PatternHits(s) ==
    LET words == Split(s)
    IN  {k \in 1..3 :
           CASE k = 1 -> \E a \in Adjectives :
                            WholeWords(s, TheWord \o <<" ">> \o a)
             [] k = 2 -> \E i \in 1..(Len(words) - 2) :
                            /\ words[i] \in Titles
                            /\ words[i + 2] \in {TheWord, OfWord}
             [] k = 3 -> /\ Len(words) >= 5
                         /\ ~IsSpace(s[1]) /\ ~IsSpace(s[Len(s)])}

\* the reasons of the pattern hits, in the order of suspicious_patterns
RECURSIVE PatternReasons(_, _)
PatternReasons(hits, k) ==
    IF k > 3 THEN <<>>
    ELSE (IF k \in hits THEN << <<"Suspicious pattern in name", k>> >> ELSE <<>>)
         \o PatternReasons(hits, k + 1)

\* check 1 of check_entity: what the name adds to risk_score
NameCheckRisk(name, source_text) ==
    IF ~_name_in_source(name, source_text) THEN 5 ELSE 0

\* a risk score that looks at check 1 only
RiskScoreNameOnly(entity, source_text) ==
    IF _name_in_source(Get(entity, "name", <<>>), source_text)
    THEN [risk_score |-> 0, reasons |-> <<>>]
    ELSE [risk_score |-> 5, reasons |-> <<"Name not found in source text">>]

\* risk_score and reasons of check_entity before they are stored
RiskScore(entity, source_text) ==
    LET name == Get(entity, "name", <<>>)
        description == Get(entity, "description", <<>>)
        absent == ~_name_in_source(name, source_text)
        hits == PatternHits(Lower(name))
        mentions == Count(Lower(source_text), Lower(name))
        confidence == Get(entity, "confidence", 5)
        detail_level == Len(description)
        detailed == mentions # 0 /\ mentions = 1 /\ Len(description) > 200
        mismatch == confidence > 9 /\ detail_level > 300 /\ mentions < 3
    IN  [risk_score |->
             NameCheckRisk(name, source_text)
             + 3 * Cardinality(hits)
             + (IF mentions = 0 THEN 4 ELSE IF detailed THEN 2 ELSE 0)
             + (IF mismatch THEN 2 ELSE 0),
         reasons |->
             (IF absent THEN <<"Name not found in source text">> ELSE <<>>)
             \o PatternReasons(hits, 1)
             \o (IF mentions = 0 THEN <<"Entity name never mentioned">>
                 ELSE IF detailed
                      THEN <<"Very detailed despite single mention">>
                      ELSE <<>>)
             \o (IF mismatch
                 THEN <<"Suspiciously detailed for mentions count">>
                 ELSE <<>>)]

\* check_entity: the entity after the in-place update
check_entity(entity, source_text) ==
    LET r == RiskScore(entity, source_text)
        e1 == Put(Put(entity, "hallucination_risk", Min(10, r.risk_score)),
                  "hallucination_reasons", r.reasons)
    IN  IF r.risk_score > 5
        THEN Put(Put(Put(e1, "confidence", Min(Get(entity, "confidence", 5), 6)),
                     "flagged", TRUE),
                 "flag_reason", <<"Possible hallucination", r.reasons>>)
        ELSE e1

\* the loop of filter_hallucinations over one entity list
RECURSIVE FilterList(_, _, _, _)
FilterList(entity_list, source_text, threshold, i) ==
    IF i > Len(entity_list) THEN <<>>
    ELSE LET checked == check_entity(entity_list[i], source_text)
         IN  (IF Get(checked, "hallucination_risk", 0) < threshold
              THEN <<checked>> ELSE <<>>)
             \o FilterList(entity_list, source_text, threshold, i + 1)

\* filter_hallucinations keeping a candidate whose risk is the threshold
FilterKeepAtThreshold(entities, source_text, threshold) ==
    [t \in DOMAIN entities |->
        FilterList(entities[t], source_text, threshold + 1, 1)]

\* filter_hallucinations
filter_hallucinations(entities, source_text, threshold) ==
    [t \in DOMAIN entities |->
        FilterList(entities[t], source_text, threshold, 1)]

\* ------------------------------------------------------------------------
\* SpecFilter: filter_hallucinations applied to a chunk's candidates
\* ------------------------------------------------------------------------
DefaultThreshold == 7

Thresholds == {5, DefaultThreshold}

\* "Bob", "marcus aurelius", "the great bob", "king bob of oz", "a b c d e",
\* "marcus aurelius nero"
FilterNames ==
    {
      <<"B", "o", "b">>,
      <<"m", "a", "r", "c", "u", "s", " ", "a", "u", "r", "e", "l", "i",
        "u", "s", " ", "n", "e", "r", "o">>,
      <<"m", "a", "r", "c", "u", "s", " ", "a", "u", "r", "e", "l", "i",
        "u", "s">>,
      <<"t", "h", "e", " ", "g", "r", "e", "a", "t", " ", "b", "o", "b">>,
      <<"k", "i", "n", "g", " ", "b", "o", "b", " ", "o", "f", " ", "o",
        "z">>,
      <<"a", " ", "b", " ", "c", " ", "d", " ", "e">> }

\* "bob met marcus", "the great bob and bob and bob",
\* "king bob of oz said a b c d e", "zzz"
SourceTexts ==
    {
      <<"b", "o", "b", " ", "m", "e", "t", " ", "m", "a", "r", "c", "u",
        "s">>,
      <<"t", "h", "e", " ", "g", "r", "e", "a", "t", " ", "b", "o", "b",
        " ", "a", "n", "d", " ", "b", "o", "b", " ", "a", "n", "d", " ",
        "b", "o", "b">>,
      <<"k", "i", "n", "g", " ", "b", "o", "b", " ", "o", "f", " ", "o",
        "z", " ", "s", "a", "i", "d", " ", "a", " ", "b", " ", "c", " ",
        "d", " ", "e">>,
      <<"z", "z", "z">> }

\* a description of n characters
Filler(n) == [i \in 1..n |-> "x"]

\* the lengths check_entity tells apart: none, 200, over 200, over 300
DescriptionLengths == {0, 200, 201, 301}

FilterCandidates ==
    {[name |-> n, confidence |-> c] : n \in FilterNames, c \in {4, 10}}
    \cup {[name |-> n, confidence |-> c, description |-> Filler(d)] :
             n \in FilterNames, c \in {4, 10},
             d \in DescriptionLengths \ {0}}
    \cup {[name |-> n, description |-> Filler(d)] :
             n \in FilterNames, d \in DescriptionLengths \ {0}}

\* entities is the dict handed to filter_hallucinations, whose entity dicts
\* check_entity updates in place; given keeps them as they were handed in
InitFilter ==
    /\ NoScans
    /\ config \in Configs
    /\ win = NotRun /\ wout = NotRun
    /\ mrg_in = NotRun /\ mrg_out = NotRun
    /\ flt_in \in {[entities |-> [EmptyEntities EXCEPT !["npcs"] = <<e1, e2>>],
                    given |-> [EmptyEntities EXCEPT !["npcs"] = <<e1, e2>>],
                    source_text |-> src,
                    threshold |-> th] :
                      e1 \in FilterCandidates, e2 \in FilterCandidates,
                      src \in SourceTexts, th \in Thresholds}
    /\ flt_out = NotRun
    /\ ext_in = NotRun /\ ext_out = NotRun
    /\ caller = NotRun

FilterRun ==
    /\ flt_out = NotRun
    /\ flt_out' = filter_hallucinations(flt_in.entities, flt_in.source_text,
                                        flt_in.threshold)
    /\ flt_in' = [flt_in EXCEPT !.entities =
                     [t \in DOMAIN flt_in.entities |->
                         [i \in 1..Len(flt_in.entities[t]) |->
                             check_entity(flt_in.entities[t][i],
                                          flt_in.source_text)]]]
    /\ UNCHANGED <<win, wout, mrg_in, mrg_out, ext_in, ext_out,
                   caller>>
    /\ UNCHANGED scanVars

NextFilter == FilterRun

SpecFilter == InitFilter /\ [][NextFilter]_vars

\* ------------------------------------------------------------------------
\* Properties of the plausibility filter
\* ------------------------------------------------------------------------
\* the positions of the given list whose checked risk is below the threshold
KeptOf(t) ==
    {i \in 1..Len(flt_in.entities[t]) :
        flt_in.entities[t][i].hallucination_risk < flt_in.threshold}

FullMatch(given, source_text) ==
    /\ Count(Lower(source_text), Lower(given.name)) = 1
    /\ Len(Get(given, "description", <<>>)) <= 200

\* C14 as stated: a candidate whose name has no occurrence in the text gets
\* a risk >= 0.4, and a candidate whose name occurs once in the text, with a
\* short description, gets the risk 0.
C14Original ==
    flt_out # NotRun =>
        \A i \in 1..Len(flt_in.given["npcs"]) :
            LET given == flt_in.given["npcs"][i]
                risk == flt_in.entities["npcs"][i].hallucination_risk
            IN  /\ Count(Lower(flt_in.source_text), Lower(given.name)) = 0
                     => risk >= 4
                /\ FullMatch(given, flt_in.source_text) => risk = 0

\* C14 amended: a candidate whose name has no occurrence in the text gets a
\* risk >= 0.4, and a candidate whose name occurs once in the text, with a
\* short description, gets 0.3 for each suspicious-title pattern its name
\* matches, which is 0 when it matches none.
C14Theorem ==
    flt_out # NotRun =>
        \A i \in 1..Len(flt_in.given["npcs"]) :
            LET given == flt_in.given["npcs"][i]
                risk == flt_in.entities["npcs"][i].hallucination_risk
            IN  /\ Count(Lower(flt_in.source_text), Lower(given.name)) = 0
                     => risk >= 4
                /\ FullMatch(given, flt_in.source_text) =>
                      risk = 3 * Cardinality(PatternHits(Lower(given.name)))

\* "Bob", in the text once and with a description of 200 characters, was
\* scored 0, and "a b c d e", nowhere in the text, was scored 1.0
C14Witness ==
    /\ flt_out # NotRun
    /\ flt_in.given["npcs"][1].name = <<"B", "o", "b">>
    /\ "description" \in DOMAIN flt_in.given["npcs"][1]
    /\ FullMatch(flt_in.given["npcs"][1], flt_in.source_text)
    /\ flt_in.entities["npcs"][1].hallucination_risk = 0
    /\ Count(Lower(flt_in.source_text),
             Lower(flt_in.given["npcs"][2].name)) = 0
    /\ flt_in.entities["npcs"][2].hallucination_risk = 10

\* ------------------------------------------------------------------------
\* SpecLoop: get_chunks_to_process run one iteration of its while loop at a
\* time, for every chunk_size and overlap the configuration can hold
\* ------------------------------------------------------------------------
MaxIter == 4

LoopInputs ==
    {[N |-> n, cp |-> NoCheckpoint, force |-> FALSE, C |-> c, O |-> o, M |-> m] :
        n \in 0..MaxIter, c \in 1..MaxIter, o \in 0..MaxIter,
        m \in {1, MaxIter}}

InitLoop ==
    /\ NoScans
    /\ config \in Configs
    /\ win \in LoopInputs
    /\ wout = NotRun
    /\ mrg_in = NotRun /\ mrg_out = NotRun
    /\ flt_in = NotRun /\ flt_out = NotRun
    /\ ext_in = NotRun /\ ext_out = NotRun
    /\ caller = NotRun

\* get_chunks_to_process up to the call of _create_overlapping_chunks
LoopEnter ==
    /\ wout = NotRun
    /\ LET start_index == StartIndex(win.cp, win.force)
       IN  wout' = IF start_index >= win.N
                   THEN [pc |-> "returned", start |-> 0, chunks |-> <<>>,
                         start_index |-> start_index,
                         end_index |-> start_index]
                   ELSE [pc |-> "while", start |-> 0, chunks |-> <<>>,
                         start_index |-> start_index,
                         end_index |-> start_index]
    /\ UNCHANGED <<win, mrg_in, mrg_out, flt_in, flt_out, ext_in, ext_out,
                   caller>>
    /\ UNCHANGED scanVars

\* the while loop about to append a chunk that starts where the last did
\* or before it
LoopStuck ==
    /\ wout # NotRun /\ wout.pc = "while"
    /\ wout.chunks # <<>>
    /\ wout.start <= wout.chunks[Len(wout.chunks)][1]

\* one iteration of the while loop of _create_overlapping_chunks; chunks are
\* the slices messages[start:end] it appends.  The loop is followed for
\* MaxIter iterations.
LoopIter ==
    /\ wout # NotRun /\ wout.pc = "while"
    /\ Len(wout.chunks) < MaxIter
    /\ LET len == win.N - wout.start_index
           end == Min(wout.start + win.C, len)
       IN  wout' = IF wout.start < len
                   THEN [wout EXCEPT
                            !.chunks = Append(@, <<wout.start, end>>),
                            !.start = wout.start + win.C - win.O,
                            !.pc = IF end >= len THEN "cap" ELSE "while"]
                   ELSE [wout EXCEPT !.pc = "cap"]
    /\ UNCHANGED <<win, mrg_in, mrg_out, flt_in, flt_out, ext_in, ext_out,
                   caller>>
    /\ UNCHANGED scanVars

\* get_chunks_to_process after the loop: the cap and the metadata
LoopReturn ==
    /\ wout # NotRun /\ wout.pc = "cap"
    /\ LET capped == Len(wout.chunks) > win.M
       IN  wout' = [wout EXCEPT
                       !.pc = "returned",
                       !.chunks = IF capped THEN SubSeq(@, 1, win.M) ELSE @,
                       !.end_index =
                           Min(IF capped
                               THEN wout.start_index + win.M * (win.C - win.O)
                               ELSE win.N, win.N)]
    /\ UNCHANGED <<win, mrg_in, mrg_out, flt_in, flt_out, ext_in, ext_out,
                   caller>>
    /\ UNCHANGED scanVars

NextLoop == LoopEnter \/ LoopIter \/ LoopReturn

SpecLoop == InitLoop /\ [][NextLoop]_vars

\* ------------------------------------------------------------------------
\* Properties of the loop
\* ------------------------------------------------------------------------
\* C15 as stated: with chunk_size <= overlap get_chunks_to_process produces
\* no chunk and does not return normally, whatever the message count.
C15Original ==
    (wout # NotRun /\ win.C <= win.O) =>
        /\ wout.chunks = <<>>
        /\ wout.pc # "returned"

\* what the loop does with chunk_size <= overlap: with at most chunk_size
\* messages it returns one chunk; with more it never leaves the while loop,
\* every chunk it appends starting at or before the one before
C15Theorem ==
    (wout # NotRun /\ win.C <= win.O /\ win.N > 0) =>
        IF win.N <= win.C
        THEN wout.pc = "returned" =>
                wout.chunks = <<(<<0, win.N>>)>>
        ELSE /\ wout.pc = "while"
             /\ \A k \in 1..Len(wout.chunks) :
                   wout.chunks[k][1] = (k - 1) * (win.C - win.O)
             /\ Len(wout.chunks) >= 1 => LoopStuck

\* chunk_size = overlap = 2 and 3 messages: the loop has appended the chunk
\* [0, 2) MaxIter times and is still at start = 0
C15Witness ==
    /\ wout # NotRun
    /\ win.C = 2 /\ win.O = 2 /\ win.N = 3
    /\ wout.pc = "while"
    /\ wout.start = 0
    /\ Len(wout.chunks) = MaxIter
    /\ \A k \in 1..MaxIter : wout.chunks[k] = <<0, 2>>

\* ------------------------------------------------------------------------
\* SpecStale: a scan attempt on a source whose lock entry has any age.  The
\* task t1 took the lock of s1 at time 0 and has been waiting for
\* db.get_checkpoint since; t2 calls run_scan when the clock shows now.
\* ------------------------------------------------------------------------
MaxDays == 2

\* ages on both sides of the staleness threshold, on each of the days
Ages ==
    {d * DaySeconds + r :
        d \in 0..MaxDays,
        r \in {0, 1, StaleSeconds - 1, StaleSeconds, StaleSeconds + 1,
               2 * StaleSeconds, DaySeconds \div 2, DaySeconds - 1}}

InitStale ==
    /\ now \in Ages
    /\ active_scans = [s \in Sources |-> IF s = "s1" THEN 0 ELSE NoLock]
    /\ messages = InitMessages
    /\ checkpoint = [s \in Sources |-> NoCheckpoint]
    /\ entity_queue = <<>>
    /\ scan_history = <<>>
    /\ scan = [p \in Procs |->
                  IF p = "t1"
                  THEN [IdleScan EXCEPT !.chat_file = "s1",
                                        !.total = InitMessages["s1"],
                                        !.pc = "get_checkpoint"]
                  ELSE IdleScan]
    /\ reclaimed = [s \in Sources |-> FALSE]
    /\ config \in Configs
    /\ NoHarness

NextStale ==
    \E s \in Sources, f \in BOOLEAN : StartScan("t2", s, f) /\ UNCHANGED harness

SpecStale == InitStale /\ [][NextStale]_vars

\* ------------------------------------------------------------------------
\* Properties of the staleness test
\* ------------------------------------------------------------------------
\* t2 calls run_scan on a source that has a lock entry
AttemptOnHeld ==
    /\ scan["t2"].pc = "idle" /\ scan'["t2"].pc # "idle"
    /\ active_scans[scan'["t2"].chat_file] # NoLock

\* C16 as stated: the attempt gets the lock, and the entry gets the time of
\* the attempt, if and only if the entry is at least 1800 seconds old,
\* whatever its age.
C16Original ==
    [][AttemptOnHeld =>
          LET s == scan'["t2"].chat_file
              age == now - active_scans[s]
          IN  /\ (scan'["t2"].pc # "skipped") = (age >= StaleSeconds)
              /\ active_scans'[s] = IF age >= StaleSeconds THEN now
                                    ELSE active_scans[s]]_vars

\* what the code does: the attempt gets the lock, and the entry gets the
\* time of the attempt, if and only if the age of the entry less its whole
\* days is at least 1800 seconds.
C16Theorem ==
    [][AttemptOnHeld =>
          LET s == scan'["t2"].chat_file
              age == now - active_scans[s]
          IN  /\ (scan'["t2"].pc # "skipped") = (age % DaySeconds >= StaleSeconds)
              /\ active_scans'[s] = IF age % DaySeconds >= StaleSeconds
                                    THEN now ELSE active_scans[s]]_vars

\* an attempt on an entry that is one day and one second old was refused
C16Witness ==
    /\ now = DaySeconds + 1
    /\ active_scans["s1"] = 0
    /\ scan["t2"].pc = "skipped"
    /\ scan["t2"].chat_file = "s1"

\* ------------------------------------------------------------------------
\* EntityExtractor (entity_extractor.py)
\* ------------------------------------------------------------------------
\* The values json.loads gives: a dict, a list or a number.
JsonDict(d) == [kind |-> "dict", d |-> d]

JsonList(items) == [kind |-> "list", items |-> items]

JsonInt(n) == [kind |-> "int", n |-> n]

\* The text of a response is a sequence of pieces: prose (text without
\* braces and fences), the text of a JSON value, a brace-delimited text
\* that is not JSON, and a ``` fence around one of these.
Prose == [piece |-> "prose"]

JsonText(v) == [piece |-> "json", value |-> v]

Braces == [piece |-> "braces"]

Fence(inner) == [piece |-> "fence", inner |-> inner]

\* what generate_with_reader gives: the text of the response, or it raises
Reply(text) == [text |-> text]

OllamaError == [error |-> "Ollama API error"]

JSONDecodeError == [error |-> "JSONDecodeError"]

\* json.loads: the text has to be that of one JSON value
json_loads(text) ==
    IF Len(text) = 1 /\ text[1].piece = "json" THEN text[1].value
    ELSE JSONDecodeError

\* a piece that starts and ends with a brace
IsObjectText(x) ==
    \/ x.piece = "braces"
    \/ x.piece = "json" /\ x.value.kind = "dict"

\* re.findall of the fence pattern: the brace-delimited texts in fences
RECURSIVE FencedObjects(_, _)
FencedObjects(text, i) ==
    IF i > Len(text) THEN <<>>
    ELSE (IF text[i].piece = "fence" /\ IsObjectText(text[i].inner)
          THEN <<text[i].inner>> ELSE <<>>)
         \o FencedObjects(text, i + 1)

\* re.findall of the object pattern: every brace-delimited text, in a
\* fence or not (the objects of the responses nest one level at most)
RECURSIVE BraceGroups(_, _)
BraceGroups(text, i) ==
    IF i > Len(text) THEN <<>>
    ELSE (IF IsObjectText(text[i]) THEN <<text[i]>>
          ELSE IF text[i].piece = "fence" /\ IsObjectText(text[i].inner)
               THEN <<text[i].inner>>
               ELSE <<>>)
         \o BraceGroups(text, i + 1)

ExpectedKeys == {"npcs", "factions", "locations", "items", "aliases"}

EmptyStructure ==
    JsonDict([t \in DOMAIN EmptyEntities |-> JsonList(<<>>)])

\* the loop over the matches of the object pattern
RECURSIVE FirstExpected(_, _, _)
FirstExpected(matches, i, otherwise) ==
    IF i > Len(matches) THEN otherwise
    ELSE LET data == json_loads(<<matches[i]>>)
         IN  IF data # JSONDecodeError
                /\ \E key \in ExpectedKeys : key \in DOMAIN data.d
             THEN data
             ELSE FirstExpected(matches, i + 1, otherwise)

\* _parse_json_response with fallback as its last resort
ParseOr(text, fallback) ==
    LET direct == json_loads(text)
        matches == FencedObjects(text, 1)
        fenced == IF matches # <<>> THEN json_loads(<<matches[1]>>)
                  ELSE JSONDecodeError
    IN  IF direct # JSONDecodeError THEN direct
        ELSE IF fenced # JSONDecodeError THEN fenced
        ELSE FirstExpected(BraceGroups(text, 1), 1, fallback)

\* _parse_json_response that gives None when nothing parses
ParseOrNone(text) == ParseOr(text, JsonInt(0))

\* _parse_json_response
_parse_json_response(text) == ParseOr(text, EmptyStructure)

\* sep.join(strings)
RECURSIVE Join(_, _)
Join(sep, strings) ==
    IF strings = <<>> THEN <<>>
    ELSE IF Len(strings) = 1 THEN strings[1]
    ELSE strings[1] \o sep \o Join(sep, Tail(strings))

\* the count of the parts of more than three characters, from part i on
RECURSIVE CountParts(_, _, _)
CountParts(text, parts, i) ==
    IF i > Len(parts) THEN 0
    ELSE (IF Len(parts[i]) > 3 THEN Count(text, Lower(parts[i])) ELSE 0)
         + CountParts(text, parts, i + 1)

\* _count_mentions
_count_mentions(name, msgs) ==
    LET text == Lower(Join(<<" ">>, msgs))
        count == Count(text, Lower(name))
                 + (IF Contains(name, <<" ">>)
                    THEN CountParts(text, Split(name), 1) ELSE 0)
    IN  Max(1, count)

\* str.find
Find(hay, needle) ==
    LET hits == {i \in 0..(Len(hay) - Len(needle)) :
                    SubSeq(hay, i + 1, i + Len(needle)) = needle}
    IN  IF hits = {} THEN -1
        ELSE CHOOSE i \in hits : \A j \in hits : i <= j

ContextChars == 100

Ellipsis == <<".", ".", ".">>

\* _find_context, from message i on
RECURSIVE FindContextFrom(_, _, _)
FindContextFrom(name, msgs, i) ==
    IF i > Len(msgs)
    THEN <<"M", "e", "n", "t", "i", "o", "n", "e", "d", ":", " ">> \o name
    ELSE LET message == msgs[i]
             pos == Find(Lower(message), Lower(name))
             start == Max(0, pos - ContextChars \div 2)
             end == Min(Len(message),
                        pos + Len(name) + ContextChars \div 2)
         IN  IF pos # -1
             THEN (IF start > 0 THEN Ellipsis ELSE <<>>)
                  \o SubSeq(message, start + 1, end)
                  \o (IF end < Len(message) THEN Ellipsis ELSE <<>>)
             ELSE FindContextFrom(name, msgs, i + 1)

_find_context(name, msgs) == FindContextFrom(name, msgs, 1)

\* the body of the loop of _validate_entities for an entity with a name;
\* the entities of the responses carry a confidence, so that
\* _estimate_confidence is not called
ValidateEntity(entity, source_messages) ==
    LET clamped == Put(entity, "confidence",
                       Max(0, Min(10, entity["confidence"])))
        counted == IF "mentions" \in DOMAIN clamped THEN clamped
                   ELSE Put(clamped, "mentions",
                            _count_mentions(entity["name"], source_messages))
    IN  IF "source_context" \in DOMAIN counted THEN counted
        ELSE Put(counted, "source_context",
                 _find_context(entity["name"], source_messages))

\* the loop of _validate_entities over one list
RECURSIVE ValidateList(_, _, _)
ValidateList(items, source_messages, i) ==
    IF i > Len(items) THEN <<>>
    ELSE (IF Get(items[i].d, "name", <<>>) = <<>> THEN <<>>
          ELSE <<ValidateEntity(items[i].d, source_messages)>>)
         \o ValidateList(items, source_messages, i + 1)

\* iterating over the value of an entity type raises, or calling get on
\* one of its items does
ValueRaises(v) ==
    \/ v.kind = "int"
    \/ v.kind = "dict" /\ DOMAIN v.d # {}
    \/ v.kind = "list" /\ \E i \in 1..Len(v.items) : v.items[i].kind # "dict"

\* _validate_entities raises
ValidateRaises(entities) ==
    \/ entities.kind = "int"
    \/ /\ entities.kind = "dict"
       /\ \E t \in DOMAIN EmptyEntities :
              t \in DOMAIN entities.d /\ ValueRaises(entities.d[t])

\* _validate_entities
_validate_entities(entities, source_messages) ==
    IF ValidateRaises(entities) THEN Raised
    ELSE [t \in DOMAIN EmptyEntities |->
             IF /\ entities.kind = "dict"
                /\ t \in DOMAIN entities.d
                /\ entities.d[t].kind = "list"
             THEN ValidateList(entities.d[t].items, source_messages, 1)
             ELSE <<>>]

\* extract_entities
extract_entities(response, msgs) ==
    IF response = OllamaError THEN Raised
    ELSE _validate_entities(_parse_json_response(response.text), msgs)

\* ------------------------------------------------------------------------
\* SpecExtract: the chunk loop of run_scan on the responses of the oracle
\* ------------------------------------------------------------------------
MaxChunks == 2

\* "bob met marcus"
Message0 ==
    <<"b", "o", "b", " ", "m", "e", "t", " ", "m", "a", "r", "c",
      "u", "s">>

\* "the great bob and bob and bob"
Message1 ==
    <<"t", "h", "e", " ", "g", "r", "e", "a", "t", " ", "b", "o",
      "b", " ", "a", "n", "d", " ", "b", "o", "b", " ", "a", "n",
      "d", " ", "b", "o", "b">>

\* "zzz"
Message2 ==
    <<"z", "z", "z">>

\* the text of the message at index k of the chat
MessageAt(k) ==
    CASE k % 3 = 0 -> Message0
      [] k % 3 = 1 -> Message1
      [] OTHER -> Message2

\* the candidates the oracle names: one complete, one with a confidence
\* out of range and neither mentions nor context, one without a name, one
\* whose name is not in the text
Bob == [name |-> <<"B", "o", "b">>, confidence |-> 9, mentions |-> 2,
        source_context |-> <<"x">>]

Marcus ==
    [name |-> <<"m", "a", "r", "c", "u", "s", " ", "a", "u", "r", "e", "l",
                "i", "u", "s">>,
     confidence |-> 12]

Nameless == [confidence |-> 5]

King ==
    [name |-> <<"k", "i", "n", "g", " ", "b", "o", "b", " ", "o", "f", " ",
                "o", "z">>,
     confidence |-> 4]

OneNpc == JsonDict([npcs |-> JsonList(<<JsonDict(Bob)>>)])

ThreeTypes ==
    JsonDict([npcs |-> JsonList(<<JsonDict(Marcus), JsonDict(Nameless)>>),
              factions |-> JsonList(<<JsonDict(King)>>),
              items |-> JsonList(<<JsonDict(Bob)>>)])

OtherKeys == JsonDict([other |-> JsonInt(1)])

NotAList == JsonDict([npcs |-> JsonInt(5)])

NotADict == JsonDict([npcs |-> JsonList(<<JsonInt(5)>>)])

\* the responses: JSON of the expected shape, no JSON at all, JSON inside
\* prose and fences, JSON of another shape, and the oracle failing
Responses ==
    {Reply(<<JsonText(OneNpc)>>),
     Reply(<<JsonText(ThreeTypes)>>),
     Reply(<<>>),
     Reply(<<Prose>>),
     Reply(<<Braces>>),
     Reply(<<Prose, JsonText(OneNpc)>>),
     Reply(<<Prose, Fence(JsonText(OneNpc)), Prose>>),
     Reply(<<Fence(Braces), JsonText(ThreeTypes), Prose>>),
     Reply(<<Prose, JsonText(OtherKeys)>>),
     Reply(<<Fence(JsonText(OtherKeys)), JsonText(OneNpc)>>),
     Reply(<<JsonText(OtherKeys)>>),
     Reply(<<JsonText(JsonInt(42))>>),
     Reply(<<JsonText(JsonList(<<JsonInt(1)>>))>>),
     Reply(<<JsonText(NotAList)>>),
     Reply(<<JsonText(NotADict)>>),
     OllamaError}

\* the first scan of a chat of MaxChunks + 1 messages, in chunks of two
\* messages that overlap by one
ExtractConfig == [chunk_size |-> 2, overlap |-> 1, max_chunks |-> MaxChunks]

ExtractScan ==
    WithChunks([IdleScan EXCEPT !.chat_file = "s1"], MaxChunks + 1,
               NoCheckpoint,
               get_chunks_to_process(MaxChunks + 1, NoCheckpoint, FALSE,
                                     ExtractConfig.chunk_size,
                                     ExtractConfig.overlap,
                                     ExtractConfig.max_chunks))

\* the messages of a chunk
ChunkTexts(chunk) ==
    [j \in 1..(chunk[2] - chunk[1]) |-> MessageAt(chunk[1] + j - 1)]

\* the progress events of run_scan
StartedEvent(st) ==
    [chat_file |-> st.chat_file, status |-> "started",
     total_chunks |-> Len(st.chunks), current_chunk |-> 0,
     entities_found |-> 0]

\* a 'processing' event that counts the chunks still to come
ProcessingEventRemaining(st, chunk_idx, all_entities) ==
    [chat_file |-> st.chat_file, status |-> "processing",
     total_chunks |-> Len(st.chunks),
     current_chunk |-> Len(st.chunks) - chunk_idx,
     entities_found |-> TotalEntities(all_entities)]

ProcessingEvent(st, chunk_idx, all_entities) ==
    [chat_file |-> st.chat_file, status |-> "processing",
     total_chunks |-> Len(st.chunks), current_chunk |-> chunk_idx + 1,
     entities_found |-> TotalEntities(all_entities)]

\* ollama.batch_size
BatchSizes == {1, 2}

\* the test before asyncio.sleep(rate_limit_delay)
RateLimited(chunk_idx, batch_size, len) ==
    (chunk_idx + 1) % batch_size = 0 /\ chunk_idx + 1 < len

\* a source text made of the messages of every chunk of the scan
SourceTextAll(chunk_texts) ==
    Join(<<"\n">>, [i \in 1..Len(ext_in.texts) |->
                       Join(<<"\n">>, ext_in.texts[i])])

\* source_text = "\n".join(chunk_texts)
SourceText(chunk_texts) == Join(<<"\n">>, chunk_texts)

\* run_scan holds the lock, has its chunks and has broadcast 'started'
InitExtract ==
    /\ now = 0
    /\ active_scans = [s \in Sources |-> IF s = "s1" THEN 0 ELSE NoLock]
    /\ messages = [s \in Sources |-> IF s = "s1" THEN MaxChunks + 1 ELSE 0]
    /\ checkpoint = [s \in Sources |-> NoCheckpoint]
    /\ entity_queue = <<>>
    /\ scan_history = <<>>
    /\ scan = [p \in Procs |-> IF p = "t1" THEN ExtractScan ELSE IdleScan]
    /\ reclaimed = [s \in Sources |-> FALSE]
    /\ config = ExtractConfig
    /\ win = NotRun /\ wout = NotRun
    /\ mrg_in = NotRun /\ mrg_out = NotRun
    /\ flt_in = NotRun /\ flt_out = NotRun
    /\ ext_in \in {[texts |-> [i \in 1..Len(ExtractScan.chunks) |->
                                  ChunkTexts(ExtractScan.chunks[i])],
                    responses |-> r,
                    batch_size |-> b] :
                      r \in [1..Len(ExtractScan.chunks) -> Responses],
                      b \in BatchSizes}
    /\ ext_out = [calls |-> <<>>, results |-> <<>>, sleeps |-> <<>>,
                  events |-> <<StartedEvent(ExtractScan)>>]
    /\ caller = NotRun

\* one iteration of the chunk loop: extract_entities on the response for
\* the chunk, filter_hallucinations against the text of the chunk, the merge,
\* the progress event and the pause after a batch; an exception skips the
\* merge, the event and the pause
ExtractResponse(p) ==
    /\ scan[p].pc = "extract"
    /\ LET chunk_idx == scan[p].chunk_idx
           chunk_texts == ext_in.texts[chunk_idx + 1]
           extracted == extract_entities(ext_in.responses[chunk_idx + 1],
                                         chunk_texts)
           source_text == SourceText(chunk_texts)
           outcome == IF extracted = Raised THEN Raised
                      ELSE filter_hallucinations(extracted, source_text,
                                                 DefaultThreshold)
           st == AfterExtract(scan[p], outcome)
       IN  /\ scan' = [scan EXCEPT ![p] = st]
           /\ ext_out' =
                 [calls |-> Append(ext_out.calls,
                                   scan[p].chunks[chunk_idx + 1]),
                  results |-> Append(ext_out.results, extracted),
                  sleeps |->
                     IF outcome # Raised
                        /\ RateLimited(chunk_idx, ext_in.batch_size,
                                       Len(scan[p].chunks))
                     THEN Append(ext_out.sleeps, chunk_idx + 1)
                     ELSE ext_out.sleeps,
                  events |->
                     IF outcome = Raised THEN ext_out.events
                     ELSE Append(ext_out.events,
                                 ProcessingEvent(scan[p], chunk_idx,
                                                 st.all_entities))]
    /\ UNCHANGED <<now, active_scans, config, messages, checkpoint,
                   entity_queue, scan_history, reclaimed>>
    /\ UNCHANGED <<win, wout, mrg_in, mrg_out, flt_in, flt_out, ext_in,
                   caller>>

NextExtract == \E p \in Procs : ExtractResponse(p)

SpecExtract == InitExtract /\ [][NextExtract]_vars

\* ------------------------------------------------------------------------
\* Properties of the chunk loop on malformed responses
\* ------------------------------------------------------------------------
\* the whole text is the text of one JSON value
IsJson(text) == Len(text) = 1 /\ text[1].piece = "json"

\* the piece, or what the fence holds
Unfenced(x) == IF x.piece = "fence" THEN x.inner ELSE x

IsDictText(x) == x.piece = "json" /\ x.value.kind = "dict"

\* the first brace-delimited text in a fence is that of a JSON object
FencedDict(text) ==
    \E i \in 1..Len(text) :
        /\ text[i].piece = "fence" /\ IsDictText(text[i].inner)
        /\ \A j \in 1..(i - 1) :
              text[j].piece = "fence" => text[j].inner.piece = "prose"

\* some JSON object in the text, in a fence or not, has an expected key
UsableDict(text) ==
    \E i \in 1..Len(text) :
        /\ IsDictText(Unfenced(text[i]))
        /\ DOMAIN Unfenced(text[i]).value.d \cap ExpectedKeys # {}

\* the text holds no JSON that the parser could take
NothingToRecover(text) ==
    ~IsJson(text) /\ ~FencedDict(text) /\ ~UsableDict(text)

\* a JSON value of the shape the extractor expects: an object whose entity
\* types are lists of objects
WellFormed(v) ==
    /\ v.kind = "dict"
    /\ \A t \in DOMAIN v.d \cap DOMAIN EmptyEntities :
          /\ v.d[t].kind = "list"
          /\ \A i \in 1..Len(v.d[t].items) : v.d[t].items[i].kind = "dict"

\* the response is text that is not JSON, or JSON of another shape
Malformed(response) ==
    /\ response # OllamaError
    /\ IsJson(response.text) => ~WellFormed(response.text[1].value)

\* the chunks whose iteration is over
Processed == 1..Len(ext_out.results)

ProcessingEvents == SelectSeq(ext_out.events, LAMBDA e : e.status = "processing")

\* C20 as stated: one 'processing' event after every chunk, the k-th event
\* carrying k chunks processed.
C20Original ==
    /\ Len(ProcessingEvents) = scan["t1"].chunk_idx
    /\ \A k \in 1..Len(ProcessingEvents) :
          ProcessingEvents[k].current_chunk = k

\* what the code does: an iteration that raises emits no event, an
\* iteration that does not raise emits one 'processing' event carrying the
\* number of the chunk and the size of the merged set after it; so the
\* events are those of the chunks that did not raise, in increasing order.
C20Theorem ==
    /\ [](LET st == scan["t1"]
              failed == {st.errors[i] : i \in 1..Len(st.errors)}
          IN  /\ Len(ProcessingEvents) = st.chunk_idx - Len(st.errors)
              /\ {ProcessingEvents[k].current_chunk :
                     k \in 1..Len(ProcessingEvents)}
                    = (1..st.chunk_idx) \ failed
              /\ \A k \in 1..(Len(ProcessingEvents) - 1) :
                    ProcessingEvents[k].current_chunk
                       < ProcessingEvents[k + 1].current_chunk)
    /\ [][\A p \in Procs :
             (scan[p].pc = "extract" /\ scan'[p] # scan[p]) =>
                 ext_out'.events =
                    IF scan'[p].errors # scan[p].errors THEN ext_out.events
                    ELSE Append(ext_out.events,
                            [chat_file |-> scan[p].chat_file,
                             status |-> "processing",
                             total_chunks |-> Len(scan[p].chunks),
                             current_chunk |-> scan'[p].chunk_idx,
                             entities_found |->
                                TotalEntities(scan'[p].all_entities)])]_vars

\* the first chunk raised and the last one gave an entity: the loop is over
\* with fewer events than chunks
C20Witness ==
    /\ scan["t1"].chunk_idx = Len(scan["t1"].chunks)
    /\ scan["t1"].errors # <<>> /\ scan["t1"].errors[1] = 1
    /\ Len(ProcessingEvents) = Len(scan["t1"].chunks) - Len(scan["t1"].errors)
    /\ Len(ProcessingEvents) > 0
    /\ ProcessingEvents[Len(ProcessingEvents)].entities_found > 0

\* ------------------------------------------------------------------------
\* Properties of the order of the chunk loop
\* ------------------------------------------------------------------------
\* C21: the oracle is called for the chunks of the scan one after the
\* other, in the order of the chunk list, whose start indices increase
\* strictly; an iteration is over (its result is there) before the next
\* call; and from one 'processing' event to the next current_chunk
\* increases strictly and entities_found does not decrease.
C21Theorem ==
    /\ [](LET st == scan["t1"]
          IN  /\ Len(ext_out.calls) = st.chunk_idx
              /\ Len(ext_out.results) = Len(ext_out.calls)
              /\ \A i \in 1..Len(ext_out.calls) :
                    ext_out.calls[i] = st.chunks[i]
              /\ \A i \in 1..(Len(ext_out.calls) - 1) :
                    ext_out.calls[i][1] < ext_out.calls[i + 1][1]
              /\ \A k \in 1..(Len(ProcessingEvents) - 1) :
                    /\ ProcessingEvents[k].current_chunk
                          < ProcessingEvents[k + 1].current_chunk
                    /\ ProcessingEvents[k].entities_found
                          <= ProcessingEvents[k + 1].entities_found)
    /\ [][\A p \in Procs :
             (scan[p].pc = "extract" /\ scan'[p] # scan[p]) =>
                 /\ Len(ext_out'.calls) = Len(ext_out.calls) + 1
                 /\ Len(ext_out'.results) = Len(ext_out.results) + 1
                 /\ TotalEntities(scan'[p].all_entities)
                       >= TotalEntities(scan[p].all_entities)]_vars

\* two chunks went to the oracle and each gave entities: two events, the
\* second with the greater count
C21Witness ==
    /\ Len(ext_out.calls) >= 2
    /\ ext_out.calls[1][1] < ext_out.calls[2][1]
    /\ Len(ProcessingEvents) >= 2
    /\ ProcessingEvents[1].current_chunk = 1
    /\ ProcessingEvents[2].current_chunk = 2
    /\ ProcessingEvents[1].entities_found = 1
    /\ ProcessingEvents[2].entities_found > 1

\* ------------------------------------------------------------------------
\* SpecCaller: what run_scan hands back to the one that called it
\* ------------------------------------------------------------------------
\* manual_scan schedules run_scan as a background task and answers at once
ManualScanResponse == [status |-> "started"]

\* the way the attempt of p ends with the step
ExitOf(p) ==
    IF scan'[p].pc = "skipped" THEN "skipped"
    ELSE IF scan[p].record = 0 THEN "unrecorded"
    ELSE IF scan_history[scan[p].record].status = "failed" THEN "failed"
    ELSE IF scan[p].chunks = <<>> THEN "noop"
    ELSE "completed"

\* what run_scan returns: its return statements are bare and it has no
\* value at its end; the exception of the except clause leaves it
run_scan_returns(exit) ==
    IF exit = "unrecorded" THEN "Exception" ELSE "None"

Pending ==
    [response |-> ManualScanResponse, exit |-> "running", value |-> "pending"]

\* the step of p seen from its caller
Observe(p) ==
    /\ caller' = IF Ends(p)
                 THEN [caller EXCEPT ![p] =
                          [response |-> ManualScanResponse,
                           exit |-> ExitOf(p),
                           value |-> run_scan_returns(ExitOf(p))]]
                 ELSE caller
    /\ UNCHANGED <<win, wout, mrg_in, mrg_out, flt_in, flt_out, ext_in,
                   ext_out>>

InitCaller ==
    /\ NoScans
    /\ config \in Configs
    /\ win = NotRun /\ wout = NotRun
    /\ mrg_in = NotRun /\ mrg_out = NotRun
    /\ flt_in = NotRun /\ flt_out = NotRun
    /\ ext_in = NotRun /\ ext_out = NotRun
    /\ caller = [p \in Procs |-> Pending]

NextCaller ==
    \/ \E p \in Procs, s \in Sources, f \in BOOLEAN :
          StartScan(p, s, f) /\ Observe(p)
    \/ \E p \in Procs : GetCheckpoint(p) /\ Observe(p)
    \/ \E p \in Procs : Extract(p) /\ Observe(p)
    \/ \E p \in Procs : AddEntity(p) /\ Observe(p)
    \/ \E p \in Procs : UpdateCheckpoint(p) /\ Observe(p)
    \/ \E p \in Procs : RecordCompleted(p) /\ Observe(p)
    \/ \E p \in Procs : NoopRecord(p) /\ Observe(p)
    \/ \E p \in Procs : RecordFailed(p) /\ Observe(p)
    \/ \E p \in Procs : ReleaseScanLock(p) /\ Observe(p)

SpecCaller == InitCaller /\ [][NextCaller]_vars

\* ------------------------------------------------------------------------
\* Properties of what the caller sees
\* ------------------------------------------------------------------------
\* what the caller of p has in hand
Seen(p) == <<caller[p].response, caller[p].value>>

\* C23 as stated: a skipped attempt and a completed one differ in what the
\* caller gets.
C23Original ==
    \A p, q \in Procs :
        (caller[p].exit = "skipped"
            /\ caller[q].exit \in {"noop", "completed"}) =>
            Seen(p) # Seen(q)

\* what the code does: the response of manual_scan is 'started' whatever
\* happens later, and run_scan returns None when it is skipped, when it
\* completes and when it records its failure; a skipped attempt differs
\* from a completed one in the scan history only, where it leaves no record.
C23Theorem ==
    /\ [](\A p \in Procs :
             /\ caller[p].response = ManualScanResponse
             /\ caller[p].exit \in {"skipped", "noop", "completed", "failed"}
                   => caller[p].value = "None")
    /\ [][\A p \in Procs :
             /\ (caller[p].exit = "running" /\ caller'[p].exit = "skipped")
                   => UNCHANGED scan_history
             /\ (caller[p].exit = "running"
                   /\ caller'[p].exit \in {"noop", "completed"}) =>
                   /\ scan[p].record # 0
                   /\ scan_history[scan[p].record].status = "completed"
                   /\ scan_history[scan[p].record].chat_file
                         = scan[p].chat_file]_vars

\* one attempt was skipped and the other completed, and their callers have
\* the same in hand
C23Witness ==
    \E p, q \in Procs :
        /\ caller[p].exit = "skipped" /\ caller[q].exit = "completed"
        /\ Seen(p) = Seen(q)

\* ------------------------------------------------------------------------
\* Properties of the pacing of the oracle calls
\* ------------------------------------------------------------------------
\* the chunks after which the scan has paused
Slept == {ext_out.sleeps[i] : i \in 1..Len(ext_out.sleeps)}

\* the chunks gone through that end a batch and are not the last
BatchEnds ==
    {k \in 1..scan["t1"].chunk_idx :
        k % ext_in.batch_size = 0 /\ k < Len(scan["t1"].chunks)}

\* C24 as stated: the scan has paused after every chunk that ends a batch
\* and is not the last.
C24Original == BatchEnds \subseteq Slept

\* what the code does: the scan pauses after the chunks that end a batch,
\* are not the last and did not raise; after one that raised the next
\* oracle call follows without a pause.
C24Theorem ==
    Slept = BatchEnds \ {scan["t1"].errors[i] :
                            i \in 1..Len(scan["t1"].errors)}

\* with batches of one chunk, the first chunk raised and the oracle was
\* called for the second without a pause in between
C24Witness ==
    /\ ext_in.batch_size = 1
    /\ scan["t1"].errors # <<>> /\ scan["t1"].errors[1] = 1
    /\ Len(ext_out.calls) >= 2
    /\ 1 \notin Slept

\* ------------------------------------------------------------------------
\* SpecAttrs: _merge_and_deduplicate on two candidates with attributes
\* ------------------------------------------------------------------------
CopiedKeySet == {CopiedKeys[k] : k \in 1..Len(CopiedKeys)}

\* the values an attribute may have: relationship may be the empty string
AttrValues(key) ==
    CASE key = "relationship" -> {<<>>, <<"x">>, <<"y">>}
      [] key = "goals" -> {<<"x">>, <<"y">>}
      [] OTHER -> {<<"x">>}

AttrChoices ==
    {v \in [CopiedKeySet -> {<<>>, <<"x">>, <<"y">>}] :
        \A key \in CopiedKeySet : v[key] \in AttrValues(key)}

\* the candidates of the given name with any subset of the attributes
AttrCandidates(name) ==
    {[key \in {"name", "confidence"} \cup K |->
         IF key = "name" THEN name
         ELSE IF key = "confidence" THEN 5
         ELSE v[key]] :
        K \in SUBSET CopiedKeySet, v \in AttrChoices}

\* two chunks, each with one npc, the names colliding
InitAttrs ==
    /\ NoScans
    /\ config \in Configs
    /\ win = NotRun /\ wout = NotRun
    /\ flt_in = NotRun /\ flt_out = NotRun
    /\ ext_in = NotRun /\ ext_out = NotRun
    /\ caller = NotRun
    /\ mrg_in \in {<<OneCandidate("npcs", e1), OneCandidate("npcs", e2)>> :
                      e1 \in AttrCandidates(<<"a">>),
                      e2 \in AttrCandidates(<<"A", " ">>)}
    /\ mrg_out = NotRun

SpecAttrs == InitAttrs /\ [][NextMerge]_vars

\* ------------------------------------------------------------------------
\* Properties of the copied attributes
\* ------------------------------------------------------------------------
\* C25: after a collision the retained entity has, for each of the five
\* attributes, the value the retained side had before when it had the
\* attribute, else the value of the incoming candidate when that one has
\* it, else no such attribute.
C25Theorem ==
    mrg_out # NotRun =>
        LET retained == mrg_in[1]["npcs"][1]
            incoming == mrg_in[2]["npcs"][1]
            result == mrg_out["npcs"][1]
        IN  /\ Len(mrg_out["npcs"]) = 1
            /\ \A key \in CopiedKeySet :
                  /\ key \in DOMAIN retained =>
                        key \in DOMAIN result /\ result[key] = retained[key]
                  /\ (key \notin DOMAIN retained /\ key \in DOMAIN incoming) =>
                        key \in DOMAIN result /\ result[key] = incoming[key]
                  /\ (key \notin DOMAIN retained /\ key \notin DOMAIN incoming)
                        => key \notin DOMAIN result

\* the two sides differ on relationship, which is kept, and only the
\* incoming one has goals, which are copied
C25Witness ==
    /\ mrg_out # NotRun
    /\ Get(mrg_in[1]["npcs"][1], "relationship", <<>>) = <<"x">>
    /\ Get(mrg_in[2]["npcs"][1], "relationship", <<>>) = <<"y">>
    /\ "goals" \notin DOMAIN mrg_in[1]["npcs"][1]
    /\ "goals" \in DOMAIN mrg_in[2]["npcs"][1]
    /\ mrg_out["npcs"][1]["relationship"] = <<"x">>
    /\ mrg_out["npcs"][1]["goals"] = mrg_in[2]["npcs"][1]["goals"]

\* ------------------------------------------------------------------------
\* SpecMentions: _merge_and_deduplicate on candidates with and without a
\* mention count
\* ------------------------------------------------------------------------
MentionPool ==
    { Typed("npcs", [name |-> <<"a">>, confidence |-> 5]),
      Typed("npcs", [name |-> <<"a">>, confidence |-> 5, mentions |-> 2]),
      Typed("npcs", [name |-> <<"A", " ">>, confidence |-> 5]),
      Typed("npcs", [name |-> <<"A", " ">>, confidence |-> 5, mentions |-> 3]),
      Typed("npcs", [name |-> <<"b">>, confidence |-> 5]),
      Typed("factions", [name |-> <<"a">>, confidence |-> 5, mentions |-> 5]) }

\* MaxFold candidates in any order, in one batch, or with the last one or
\* the last two in a batch of their own
InitMentions ==
    /\ NoScans
    /\ config \in Configs
    /\ win = NotRun /\ wout = NotRun
    /\ flt_in = NotRun /\ flt_out = NotRun
    /\ ext_in = NotRun /\ ext_out = NotRun
    /\ caller = NotRun
    /\ mrg_in \in {BatchesFrom(items, cuts, 1) :
                      items \in [1..MaxFold -> MentionPool],
                      cuts \in {{}, {1}, {MaxFold - 1}}}
    /\ mrg_out = NotRun

SpecMentions == InitMentions /\ [][NextFold]_vars

\* ------------------------------------------------------------------------
\* Properties of the mention count
\* ------------------------------------------------------------------------
\* the candidates of mrg_in that were folded into the merged entity x
FoldedInto(x) == Group(Arrivals, KeyOf(x))

\* C26: the mention count of every merged entity, 1 when it has none, is
\* the sum of the mention counts of the candidates folded into it, a
\* candidate without a count counting for 1, in whatever order and batches
\* the candidates arrived.
C26Theorem ==
    mrg_out # NotRun =>
        \A x \in Range(Flatten(mrg_out)) :
            /\ Get(x.entity, "mentions", 1) = SumMentions(Arrivals, FoldedInto(x))
            /\ Cardinality(FoldedInto(x)) > 1 => "mentions" \in DOMAIN x.entity

\* three colliding candidates, the first and the last without a count and
\* the second with 3, were folded into one entity with the count 5
C26Witness ==
    /\ mrg_out # NotRun
    /\ Len(Arrivals) >= 3
    /\ "mentions" \notin DOMAIN Arrivals[1].entity
    /\ Get(Arrivals[2].entity, "mentions", 0) = 3
    /\ "mentions" \notin DOMAIN Arrivals[3].entity
    /\ \E x \in Range(Flatten(mrg_out)) :
          /\ {1, 2, 3} \subseteq FoldedInto(x)
          /\ Cardinality(FoldedInto(x)) = 3
          /\ x.entity.mentions = 5

\* ------------------------------------------------------------------------
\* Properties of the merge of run_scan against _merge_and_deduplicate
\* ------------------------------------------------------------------------
\* what the chunk loop of run_scan makes of the batches of mrg_in
RunScanMerged == RunScanMergeFrom(EmptyEntities, mrg_in, 1)

\* a and b hold the same keys and, per key, the same confidence,
\* description, mention count and copied attributes
SameMerged(a, b) ==
    /\ SameScalars(a, b)
    /\ \A x \in Range(Flatten(a)), y \in Range(Flatten(b)) :
          KeyOf(x) = KeyOf(y) => Desc(x.entity) = Desc(y.entity)

\* C27 as stated: run_scan and _merge_and_deduplicate make the same merged
\* set of the same batches.
C27Original ==
    mrg_out # NotRun => SameMerged(RunScanMerged, mrg_out)

\* the key run_scan compares: the type and the lowercased name, not trimmed
LowerKeyOf(a) == <<a.entity_type, Lower(a.entity.name)>>

LowerGroup(items, k) == {i \in 1..Len(items) : LowerKeyOf(items[i]) = k}

\* the first candidate of the group I with the greatest confidence
FirstBest(items, I) ==
    CHOOSE i \in I :
        /\ items[i].entity.confidence = MaxConfidence(items, I)
        /\ \A j \in I : items[j].entity.confidence
                           = MaxConfidence(items, I) => i <= j

\* what the code does: run_scan keeps one entity per type and lowercased
\* name, as spelled, with the fields of the first candidate of that key
\* that has the greatest confidence (fields that candidate lacks stay as an
\* earlier one left them); mentions are not summed and descriptions are not
\* combined; the two merged sets are the same when no two candidates have
\* the same type and normalized name.
C27Theorem ==
    mrg_out # NotRun =>
        LET out == Flatten(RunScanMerged)
        IN  /\ {LowerKeyOf(out[i]) : i \in 1..Len(out)}
                  = {LowerKeyOf(Arrivals[i]) : i \in 1..Len(Arrivals)}
            /\ \A i, j \in 1..Len(out) :
                  LowerKeyOf(out[i]) = LowerKeyOf(out[j]) => i = j
            /\ \A x \in Range(out) :
                  LET I == LowerGroup(Arrivals, LowerKeyOf(x))
                      best == Arrivals[FirstBest(Arrivals, I)].entity
                  IN  /\ x.entity.confidence = best.confidence
                      /\ x.entity.mentions = best.mentions
                      /\ "description" \in DOMAIN best =>
                            Desc(x.entity) = Desc(best)
            /\ Cardinality(Keys(Arrivals)) = Len(Arrivals) =>
                  RunScanMerged = mrg_out

\* two candidates spelled the same arrived in different chunks: the merge
\* engine counts 2 mentions where run_scan keeps 1
C27Witness ==
    /\ mrg_out # NotRun
    /\ Len(mrg_in) = 2
    /\ Arrivals[1].entity = [name |-> <<"a">>, confidence |-> 4, mentions |-> 1]
    /\ Arrivals[Len(Arrivals)].entity = Arrivals[1].entity
    /\ Arrivals[Len(Arrivals)].entity_type = "npcs"
    /\ RunScanMerged["npcs"][1].mentions = 1
    /\ mrg_out["npcs"][1].mentions >= 2

\* ------------------------------------------------------------------------
\* Properties of the name check of check_entity
\* ------------------------------------------------------------------------
\* the words of the name that are longer than 3 characters
SignificantTokens(name) ==
    LET words == Split(Lower(name))
    IN  {i \in 1..Len(words) : Len(words[i]) > 3}

\* those of them that occur in the text
TokensFound(name, source_text) ==
    LET words == Split(Lower(name))
    IN  {i \in SignificantTokens(name) :
            Contains(Lower(source_text), words[i])}

WholeNameFound(name, source_text) ==
    Contains(Lower(source_text), Lower(name))

\* some of the significant tokens occur in the text, but fewer than half
MinorityFound(name, source_text) ==
    /\ ~WholeNameFound(name, source_text)
    /\ TokensFound(name, source_text) # {}
    /\ 2 * Cardinality(TokensFound(name, source_text))
          < Cardinality(SignificantTokens(name))

\* at least half of the significant tokens, or the whole name, occur
MajorityFound(name, source_text) ==
    \/ WholeNameFound(name, source_text)
    \/ /\ SignificantTokens(name) # {}
       /\ 2 * Cardinality(TokensFound(name, source_text))
             >= Cardinality(SignificantTokens(name))

\* the first reason of a checked candidate is that of check 1
NameReason(checked) ==
    /\ checked.hallucination_reasons # <<>>
    /\ checked.hallucination_reasons[1] = "Name not found in source text"

\* C29 as stated: the name check adds 0.5 only when the name is entirely
\* absent from the text, less than 0.5 (and something) when a minority of
\* its significant tokens occur, and nothing when at least half of them or
\* the whole name occur.
C29Original ==
    flt_out # NotRun =>
        \A i \in 1..Len(flt_in.given["npcs"]) :
            LET name == flt_in.given["npcs"][i].name
                added == NameCheckRisk(name, flt_in.source_text)
            IN  /\ MinorityFound(name, flt_in.source_text) =>
                      added > 0 /\ added < 5
                /\ MajorityFound(name, flt_in.source_text) => added = 0
                /\ added = 5 =>
                      /\ ~WholeNameFound(name, flt_in.source_text)
                      /\ TokensFound(name, flt_in.source_text) = {}

\* what the code does: the name check adds exactly 0.5, with its reason,
\* whenever the whole name does not occur in the text and fewer than half
\* of its significant tokens do (none being fewer than half of none), and
\* adds nothing otherwise; there is no contribution in between.
C29Theorem ==
    flt_out # NotRun =>
        \A i \in 1..Len(flt_in.given["npcs"]) :
            LET name == flt_in.given["npcs"][i].name
                added == NameCheckRisk(name, flt_in.source_text)
                checked == flt_in.entities["npcs"][i]
            IN  /\ added \in {0, 5}
                /\ added = 0 <=> MajorityFound(name, flt_in.source_text)
                /\ added = 5 <=> NameReason(checked)
                /\ added = 5 => checked.hallucination_risk >= 5

\* "marcus aurelius nero" checked against "bob met marcus": one significant
\* token of three occurs, and the check added 0.5
C29Witness ==
    /\ flt_out # NotRun
    /\ Len(flt_in.given["npcs"][1].name) = 20
    /\ flt_in.source_text[1] = "b"
    /\ Len(flt_in.source_text) = 14
    /\ MinorityFound(flt_in.given["npcs"][1].name, flt_in.source_text)
    /\ NameCheckRisk(flt_in.given["npcs"][1].name, flt_in.source_text) = 5
    /\ NameReason(flt_in.entities["npcs"][1])

\* ------------------------------------------------------------------------
\* SpecPipeline: the chunk loop of run_scan on the responses of the oracle,
\* followed by the loop that queues the merged entities
\* ------------------------------------------------------------------------
NextPipeline ==
    \/ \E p \in Procs : ExtractResponse(p)
    \/ \E p \in Procs : AddEntity(p) /\ UNCHANGED harness

SpecPipeline == InitExtract /\ [][NextPipeline]_vars

\* ------------------------------------------------------------------------
\* Properties of the order extract, filter, merge
\* ------------------------------------------------------------------------
\* the text of the chunk numbered i
OwnText(i) == Join(<<"\n">>, ext_in.texts[i])

\* the candidates of type t with the name of e, as the filter scored them
\* against the text of their own chunk and let them pass
Passed(t, e) ==
    UNION {{check_entity(ext_out.results[i][t][j], OwnText(i)) :
               j \in {j \in 1..Len(ext_out.results[i][t]) :
                        /\ Lower(ext_out.results[i][t][j].name)
                              = Lower(e.name)
                        /\ check_entity(ext_out.results[i][t][j],
                                        OwnText(i)).hallucination_risk
                              < DefaultThreshold}} :
             i \in {i \in Processed : ext_out.results[i] # Raised}}

\* C28: every entity of the merged set is built only from candidates that
\* the filter scored against the text of their own chunk and found below
\* the drop threshold: it has all the fields of one of them and no field
\* that is not the field of one of them; it carries a risk below the
\* threshold; every queued row holds an entity of the merged set, and
\* nothing is queued before the last chunk is merged.
C28Theorem ==
    LET merged == Flatten(scan["t1"].all_entities)
    IN  /\ \A x \in Range(merged) :
              /\ \E c \in Passed(x.entity_type, x.entity) :
                    \A k \in DOMAIN c : x.entity[k] = c[k]
              /\ \A k \in DOMAIN x.entity :
                    \E c \in Passed(x.entity_type, x.entity) :
                        k \in DOMAIN c /\ x.entity[k] = c[k]
              /\ x.entity.hallucination_risk < DefaultThreshold
        /\ \A r \in Range(entity_queue) :
              \E x \in Range(merged) :
                  /\ r.entity_data = x.entity
                  /\ r.entity_type = ENTITY_TYPE_MAP(x.entity_type)
        /\ entity_queue # <<>> => scan["t1"].pc # "extract"

\* "marcus aurelius", named in the second chunk, was dropped there though
\* the text of the first chunk would have let it pass; the two entities
\* that passed are queued
C28Witness ==
    /\ scan["t1"].pc = "update_checkpoint"
    /\ Len(entity_queue) = 2
    /\ ext_out.results[1] # Raised /\ ext_out.results[2] # Raised
    /\ Len(ext_out.results[2]["npcs"]) >= 1
    /\ ext_out.results[2]["npcs"][1].name = Marcus.name
    /\ check_entity(ext_out.results[2]["npcs"][1],
                    OwnText(2)).hallucination_risk >= DefaultThreshold
    /\ check_entity(ext_out.results[2]["npcs"][1],
                    OwnText(1)).hallucination_risk < DefaultThreshold
    /\ \A x \in Range(Flatten(scan["t1"].all_entities)) :
          x.entity.name # Marcus.name

\* ------------------------------------------------------------------------
\* SpecQueue: the queueing loops of two scans of different chats that are
\* mapped to the same character file, add_entity taken one await at a time
\* ------------------------------------------------------------------------
NameA == <<"a">>

NameB == <<"b">>

\* the merged entities of a scan, c being the confidence it gives them
QueuePool(c) ==
    {[EmptyEntities EXCEPT !["npcs"] = <<Cand(NameA, c)>>],
     [EmptyEntities EXCEPT !["npcs"] = <<Cand(NameA, c), Cand(NameB, c)>>],
     [EmptyEntities EXCEPT !["npcs"] = <<Cand(NameB, c)>>,
                           !["factions"] = <<Cand(NameA, c)>>]}

\* run_scan of the chat s about to queue its merged entities
QueueScan(s, all_entities) ==
    [IdleScan EXCEPT !.chat_file = s,
                     !.total = 2,
                     !.chunks = << <<0, 2>> >>,
                     !.metadata = [total_messages |-> 2, start_index |-> 0,
                                   end_index |-> 2],
                     !.chunk_idx = 1,
                     !.all_entities = all_entities,
                     !.pc = "add_entity"]

\* the queue is empty, or holds the rows of an earlier scan of the chat s1
InitQueue ==
    /\ now = 0
    /\ active_scans = [s \in Sources |-> 0]
    /\ config \in Configs
    /\ messages = [s \in Sources |-> 2]
    /\ checkpoint = [s \in Sources |-> NoCheckpoint]
    /\ scan_history = <<>>
    /\ reclaimed = [s \in Sources |-> FALSE]
    /\ \E e1 \in QueuePool(5), e2 \in QueuePool(6), again \in BOOLEAN :
          /\ scan = [p \in Procs |-> IF p = "t1" THEN QueueScan("s1", e1)
                                     ELSE QueueScan("s2", e2)]
          /\ entity_queue =
                IF again
                THEN [i \in 1..Len(Flatten(e1)) |->
                         QueueRow(QueueScan("s1", e1), Flatten(e1)[i])]
                ELSE <<>>
    /\ NoHarness

\* add_entity up to the await of its SELECT
AddEntitySelect(p) ==
    /\ scan[p].pc = "add_entity"
    /\ LET item == Flatten(scan[p].all_entities)[scan[p].q_idx + 1]
       IN  scan' = [scan EXCEPT ![p] =
               [@ EXCEPT !.existing =
                             SelectExisting(entity_queue,
                                            QueueRow(scan[p], item)),
                         !.pc = "add_entity_write"]]
    /\ UNCHANGED <<now, active_scans, config, messages, checkpoint,
                   entity_queue, scan_history, reclaimed>>

\* the rest of add_entity, and the queueing loop up to the next add_entity
AddEntityWrite(p) ==
    /\ scan[p].pc = "add_entity_write"
    /\ LET items == Flatten(scan[p].all_entities)
           item == items[scan[p].q_idx + 1]
       IN  /\ entity_queue' = WriteEntity(entity_queue,
                                          QueueRow(scan[p], item),
                                          scan[p].existing)
           /\ scan' = [scan EXCEPT ![p] =
                 [@ EXCEPT !.q_idx = @ + 1,
                           !.existing = 0,
                           !.pc = IF scan[p].q_idx + 1 < Len(items)
                                  THEN "add_entity"
                                  ELSE "update_checkpoint"]]
    /\ UNCHANGED <<now, active_scans, config, messages, checkpoint,
                   scan_history, reclaimed>>

NextQueue ==
    \/ \E p \in Procs : AddEntitySelect(p) /\ UNCHANGED harness
    \/ \E p \in Procs : AddEntityWrite(p) /\ UNCHANGED harness

SpecQueue == InitQueue /\ [][NextQueue]_vars

\* ------------------------------------------------------------------------
\* Properties of the review queue under concurrent scans
\* ------------------------------------------------------------------------
\* the key add_entity looks a pending row up by
RowKey(row) == <<row.entity_name, row.entity_type, row.target_file>>

\* the chat a row was last written for
RowChat(row) == row.source_messages[3]

\* C30 as stated: the queue never holds two pending rows with the same
\* name, type and target file.
C30Original ==
    \A i, j \in 1..Len(entity_queue) :
        RowKey(entity_queue[i]) = RowKey(entity_queue[j]) => i = j

\* what the code does: add_entity replaces the data, the confidence and
\* the source span of the pending row its SELECT found and inserts a row
\* when the SELECT found none, whatever was inserted since; two rows of
\* the same key are rows of two different scans, and while no other scan
\* writes between the SELECT and the write no second row is made.
C30Theorem ==
    /\ [](\A i, j \in 1..Len(entity_queue) :
             RowKey(entity_queue[i]) = RowKey(entity_queue[j]) /\ i # j =>
                 RowChat(entity_queue[i]) # RowChat(entity_queue[j]))
    /\ [][\A p \in Procs :
             scan[p].pc = "add_entity_write" /\ scan'[p].pc # scan[p].pc =>
                 LET row == QueueRow(scan[p],
                               Flatten(scan[p].all_entities)[scan[p].q_idx + 1])
                     e == scan[p].existing
                     seen == SelectExisting(entity_queue, row)
                 IN  /\ e # 0 =>
                           /\ Len(entity_queue') = Len(entity_queue)
                           /\ entity_queue'[e] = row
                     /\ e = 0 => entity_queue' = Append(entity_queue, row)
                     /\ seen = e =>
                           Cardinality({i \in 1..Len(entity_queue') :
                               RowKey(entity_queue'[i]) = RowKey(row)}) = 1
         ]_vars

\* both scans found no pending row for the npc "a" and both inserted one
C30Witness ==
    /\ Len(entity_queue) = 2
    /\ RowKey(entity_queue[1]) = RowKey(entity_queue[2])
    /\ entity_queue[1].entity_name = NameA
    /\ RowChat(entity_queue[1]) # RowChat(entity_queue[2])
    /\ \A p \in Procs : scan[p].pc = "update_checkpoint"

\* ------------------------------------------------------------------------
\* SpecStamp: ChunkProcessor.update_checkpoint with the timestamp it stores,
\* called at the end of a scan of a chat that may have grown since it was
\* read
\* ------------------------------------------------------------------------
MaxStamp == 5

\* last_timestamp = None
NoDate == [none |-> TRUE]

\* the 'date' of the message at index k of a chat
DateOf(k) == [date |-> k]

\* messages[i] of a list of len messages, a negative i counting from the end
PyIndex(i, len) == IF i < 0 THEN len + i ELSE i

\* last_timestamp of update_checkpoint, len being len(messages)
LastTimestamp(processed_up_to, len) ==
    IF processed_up_to < len
    THEN DateOf(PyIndex(processed_up_to - 1, len))
    ELSE NoDate

\* the row update_checkpoint stores, timestamp included
CheckpointRowStamped(st, len) ==
    [last_processed_index |-> st.metadata.end_index,
     last_processed_timestamp |-> LastTimestamp(st.metadata.end_index, len),
     total_messages |-> st.metadata.total_messages]

\* run_scan of the chat s about to call update_checkpoint
StampScan(s, total, start_index, end_index) ==
    [IdleScan EXCEPT !.chat_file = s,
                     !.total = total,
                     !.chunks = << <<start_index, end_index>> >>,
                     !.metadata = [total_messages |-> total,
                                   start_index |-> start_index,
                                   end_index |-> end_index],
                     !.chunk_idx = 1,
                     !.pc = "update_checkpoint"]

InitStamp ==
    /\ now = 0
    /\ active_scans = [s \in Sources |-> IF s = "s1" THEN 0 ELSE NoLock]
    /\ config \in Configs
    /\ checkpoint = [s \in Sources |-> NoCheckpoint]
    /\ entity_queue = <<>>
    /\ scan_history = <<>>
    /\ reclaimed = [s \in Sources |-> FALSE]
    /\ \E len \in 1..MaxStamp :
       \E total \in 1..len :
       \E end_index \in 1..total :
       \E start_index \in 0..(end_index - 1) :
          /\ messages = [s \in Sources |-> IF s = "s1" THEN len ELSE 0]
          /\ scan = [p \in Procs |->
                        IF p = "t1"
                        THEN StampScan("s1", total, start_index, end_index)
                        ELSE IdleScan]
    /\ NoHarness

\* chunk_processor.update_checkpoint: read_chat, the timestamp, the row
UpdateCheckpointStamped(p) ==
    /\ scan[p].pc = "update_checkpoint"
    /\ \/ /\ scan' = [scan EXCEPT ![p].pc = "except"]
          /\ UNCHANGED checkpoint
       \/ /\ checkpoint' = [checkpoint EXCEPT ![scan[p].chat_file] =
                                CheckpointRowStamped(
                                    scan[p], messages[scan[p].chat_file])]
          /\ scan' = [scan EXCEPT ![p].pc = "record"]
    /\ UNCHANGED <<now, active_scans, config, messages, entity_queue,
                   scan_history, reclaimed>>

NextStamp == \E p \in Procs : UpdateCheckpointStamped(p) /\ UNCHANGED harness

SpecStamp == InitStamp /\ [][NextStamp]_vars

\* ------------------------------------------------------------------------
\* Properties of the timestamp of the checkpoint
\* ------------------------------------------------------------------------
\* C31 as stated: the timestamp stored is the date of the message at index
\* processed_up_to - 1, for every processed_up_to from 1 to the number of
\* messages of the chat.
C31Original ==
    \A s \in Sources :
        checkpoint[s] # NoCheckpoint =>
            checkpoint[s].last_processed_timestamp
                = DateOf(checkpoint[s].last_processed_index - 1)

\* what the code does: the timestamp stored is the date of the message at
\* index processed_up_to - 1 when processed_up_to is less than the number
\* of messages the chat has when the checkpoint is written, and None when
\* the scan reached the last message.
C31Theorem ==
    \A s \in Sources :
        checkpoint[s] # NoCheckpoint =>
            LET cp == checkpoint[s]
            IN  /\ cp.last_processed_index < messages[s] =>
                      cp.last_processed_timestamp
                          = DateOf(cp.last_processed_index - 1)
                /\ cp.last_processed_index >= messages[s] =>
                      cp.last_processed_timestamp = NoDate

\* a scan that reached the last of three messages stored no timestamp
C31Witness ==
    /\ messages["s1"] = 3
    /\ checkpoint["s1"] # NoCheckpoint
    /\ checkpoint["s1"].last_processed_index = 3
    /\ checkpoint["s1"].last_processed_timestamp = NoDate
    /\ scan["t1"].pc = "record"

\* ------------------------------------------------------------------------
\* SpecScans: successive incremental scans of one chat of N messages, each
\* taken whole (the chat does not change and the lock admits one scan at a
\* time); wout is the list of what get_chunks_to_process returned to them
\* ------------------------------------------------------------------------
\* one more scan than it takes to reach the end of the longest chat one
\* message at a time, and one no-op after it
MaxScans == MaxWinN + 2

ScanConfigs ==
    {[chunk_size |-> c, overlap |-> o, max_chunks |-> m] :
        c \in 1..MaxWinC, o \in 0..(MaxWinC - 1), m \in 1..MaxWinM}

InitScans ==
    /\ now = 0
    /\ active_scans = [s \in Sources |-> NoLock]
    /\ config \in {c \in ScanConfigs : c.overlap < c.chunk_size}
    /\ messages \in {[s \in Sources |-> IF s = "s1" THEN n ELSE 0] :
                        n \in 0..MaxWinN}
    /\ checkpoint = [s \in Sources |-> NoCheckpoint]
    /\ entity_queue = <<>>
    /\ scan_history = <<>>
    /\ scan = [p \in Procs |-> IdleScan]
    /\ reclaimed = [s \in Sources |-> FALSE]
    /\ win = NotRun /\ wout = <<>>
    /\ mrg_in = NotRun /\ mrg_out = NotRun
    /\ flt_in = NotRun /\ flt_out = NotRun
    /\ ext_in = NotRun /\ ext_out = NotRun
    /\ caller = NotRun

\* a scan of the chat s that does not fail: get_chunks_to_process, the
\* 'completed' record of a scan without chunks or, after the chunks, the
\* checkpoint and the 'completed' record
IncrementalScan(p, s) ==
    /\ Len(wout) < MaxScans
    /\ LET r == get_chunks_to_process(messages[s], checkpoint[s], FALSE,
                                      config.chunk_size, config.overlap,
                                      config.max_chunks)
           st == WithChunks([IdleScan EXCEPT !.chat_file = s,
                                             !.cp_before = checkpoint[s]],
                            messages[s], checkpoint[s], r)
       IN  /\ wout' = Append(wout, r)
           /\ scan' = [scan EXCEPT ![p] = [st EXCEPT !.pc = "idle"]]
           /\ checkpoint' = IF r.chunks = <<>> THEN checkpoint
                            ELSE [checkpoint EXCEPT ![s] = CheckpointRow(st)]
           /\ scan_history' =
                 Append(scan_history,
                        IF r.chunks = <<>>
                        THEN HistoryRow(st, 0, 0, "completed", "No new messages")
                        ELSE HistoryRow(st, r.end_index - r.start_index, 0,
                                        "completed", "None"))
    /\ UNCHANGED <<now, active_scans, config, messages, entity_queue,
                   reclaimed>>
    /\ UNCHANGED <<win, mrg_in, mrg_out, flt_in, flt_out, ext_in, ext_out,
                   caller>>

NextScans == IncrementalScan("t1", "s1")

SpecScans == InitScans /\ [][NextScans]_vars

\* ------------------------------------------------------------------------
\* Properties of successive capped scans
\* ------------------------------------------------------------------------
\* the message index i is in a chunk of the window r
InChunk(r, i) ==
    \E k \in 1..Len(r.chunks) : r.chunks[k][1] <= i /\ i < r.chunks[k][2]

\* the index the checkpoint stood at when the scan numbered j began
CheckpointBefore(j) == IF j = 1 THEN 0 ELSE wout[j - 1].end_index

\* C32: each scan's first chunk starts exactly at the checkpoint the scan
\* before it stored (0 for the first), and every message index below the
\* checkpoint was in a chunk of some scan: capped scans skip no message.
C32Theorem ==
    /\ \A j \in 1..Len(wout) :
          /\ wout[j].start_index = CheckpointBefore(j)
          /\ wout[j].chunks # <<>> =>
                wout[j].chunks[1][1] = CheckpointBefore(j)
    /\ \A i \in 0..(IndexOf(checkpoint["s1"]) - 1) :
          \E j \in 1..Len(wout) : InChunk(wout[j], i)
    /\ wout # <<>> => IndexOf(checkpoint["s1"]) = wout[Len(wout)].end_index

\* seven messages in chunks of three that overlap by one, two chunks a
\* scan: the second scan began at 4, where the first had stopped, and the
\* two scans covered the seven messages
C32Witness ==
    /\ messages["s1"] = 7
    /\ config = [chunk_size |-> 3, overlap |-> 1, max_chunks |-> 2]
    /\ Len(wout) = 2
    /\ wout[1].chunks = <<(<<0, 3>>), (<<2, 5>>)>>
    /\ wout[1].end_index = 4
    /\ wout[2].chunks = <<(<<4, 7>>)>>
    /\ checkpoint["s1"].last_processed_index = 7

\* ------------------------------------------------------------------------
\* SpecScansFair: the scans of SpecScans, repeated as long as one changes
\* anything
\* ------------------------------------------------------------------------
SpecScansFair == SpecScans /\ WF_vars(NextScans)

\* C33: every call of get_chunks_to_process returns, after at most as many
\* turns of its loop as there are messages to process; a scan that began
\* below the end of the chat returns chunks and ends strictly beyond its
\* start, so the checkpoint advances; repeated scans bring the checkpoint
\* to N for good, and from then on a scan returns no chunk and leaves the
\* checkpoint alone.
C33Theorem ==
    /\ [](\A j \in 1..Len(wout) :
             LET r == wout[j]
                 todo == r.total_messages - r.start_index
             IN  /\ r.start_index < r.total_messages =>
                       /\ r.chunks # <<>>
                       /\ r.end_index > r.start_index
                       /\ r.end_index <= r.total_messages
                       /\ Len(_create_overlapping_chunks(
                                  todo, config.chunk_size, config.overlap))
                             <= todo
                 /\ r.start_index >= r.total_messages =>
                       r.chunks = <<>> /\ r.end_index = r.start_index)
    /\ <>[](IndexOf(checkpoint["s1"]) = messages["s1"])
    /\ [][IndexOf(checkpoint["s1"]) = messages["s1"] =>
             /\ checkpoint' = checkpoint
             /\ wout'[Len(wout')].chunks = <<>>]_vars

\* the checkpoint of a chat of seven messages went 4, 7 and the third scan
\* was a no-op
C33Witness ==
    /\ messages["s1"] = 7
    /\ Len(wout) = 3
    /\ wout[1].end_index = 4
    /\ wout[2].end_index = 7
    /\ wout[3].chunks = <<>>
    /\ IndexOf(checkpoint["s1"]) = 7
    /\ Len(scan_history) = 3
    /\ scan_history[3].error_message = "No new messages"

\* ------------------------------------------------------------------------
\* Properties of the end index of a scan
\* ------------------------------------------------------------------------
\* the chunk list of the window r was cut to max_chunks chunks
Truncated(r) ==
    /\ r.start_index < r.total_messages
    /\ Len(_create_overlapping_chunks(r.total_messages - r.start_index,
                                      config.chunk_size, config.overlap))
          > config.max_chunks

\* C34: the end_index of a scan with chunks, which is the checkpoint it
\* writes, is never beyond the end of its last chunk; when the chunk list
\* was cut to M chunks it is S + M(C-O), strictly between S and N, so that
\* the min with N changes nothing.
C34Theorem ==
    /\ \A j \in 1..Len(wout) :
          LET r == wout[j]
              stride == config.chunk_size - config.overlap
          IN  /\ r.chunks # <<>> =>
                    r.end_index <= r.chunks[Len(r.chunks)][2]
              /\ Truncated(r) =>
                    /\ Len(r.chunks) = config.max_chunks
                    /\ r.end_index = r.start_index + config.max_chunks * stride
                    /\ r.start_index < r.end_index
                    /\ r.end_index < r.total_messages
    /\ (wout # <<>> /\ wout[Len(wout)].chunks # <<>>) =>
          LET r == wout[Len(wout)]
          IN  checkpoint["s1"].last_processed_index
                 <= r.chunks[Len(r.chunks)][2]

\* the first scan of twelve messages in chunks of five that overlap by
\* two, two chunks a scan: the chunks end at 8, the checkpoint is 6
C34Witness ==
    /\ messages["s1"] = 12
    /\ config = [chunk_size |-> 5, overlap |-> 2, max_chunks |-> 2]
    /\ Len(wout) = 1
    /\ Truncated(wout[1])
    /\ wout[1].chunks = <<(<<0, 5>>), (<<3, 8>>)>>
    /\ wout[1].end_index = 6
    /\ checkpoint["s1"].last_processed_index = 6

\* ------------------------------------------------------------------------
\* SpecRelease: run_scan seen from the lock: the attempt, the body of the
\* scan (one step), the release in the finally clause; a task whose
\* run_scan has returned may call it again; acquired is the time at which
\* the task was granted the lock
\* ------------------------------------------------------------------------
InitRelease ==
    /\ NoScans
    /\ config \in Configs
    /\ NoHarness

\* run_scan is called: acquire_scan_lock, and the return when it refuses
LockAttempt(p, s) ==
    /\ scan[p].pc \in {"idle", "skipped"}
    /\ active_scans' = AcquireTable(active_scans, s, now)
    /\ reclaimed' = [reclaimed EXCEPT ![s] =
                        @ \/ (active_scans[s] # NoLock
                              /\ Seconds(now - active_scans[s]) >= StaleSeconds)]
    /\ scan' = [scan EXCEPT ![p] =
          IF AcquireResult(active_scans, s, now)
          THEN [IdleScan EXCEPT !.chat_file = s, !.acquired = now,
                                !.pc = "get_checkpoint"]
          ELSE [IdleScan EXCEPT !.chat_file = s, !.pc = "skipped"]]
    /\ UNCHANGED <<now, config, messages, checkpoint, entity_queue,
                   scan_history>>

\* the try block of run_scan, whatever it does
ScanBody(p) ==
    /\ scan[p].pc = "get_checkpoint"
    /\ scan' = [scan EXCEPT ![p].pc = "finally"]
    /\ UNCHANGED <<now, active_scans, config, messages, checkpoint,
                   entity_queue, scan_history, reclaimed>>

\* the finally clause of run_scan: release_scan_lock, and the return
LockRelease(p) ==
    /\ scan[p].pc = "finally"
    /\ active_scans' = ReleaseTable(active_scans, scan[p].chat_file)
    /\ scan' = [scan EXCEPT ![p] = IdleScan]
    /\ UNCHANGED <<now, config, messages, checkpoint, entity_queue,
                   scan_history, reclaimed>>

NextRelease ==
    \/ \E p \in Procs, s \in Sources : LockAttempt(p, s) /\ UNCHANGED harness
    \/ \E p \in Procs : ScanBody(p) /\ UNCHANGED harness
    \/ \E p \in Procs : LockRelease(p) /\ UNCHANGED harness
    \/ Tick /\ UNCHANGED harness

SpecRelease == InitRelease /\ [][NextRelease]_vars

\* ------------------------------------------------------------------------
\* Properties of the release of the lock
\* ------------------------------------------------------------------------
\* the task p is in a scan whose lock it was granted less than the
\* staleness threshold ago
RunningFresh(p) ==
    /\ scan[p].pc \in Holding
    /\ Seconds(now - scan[p].acquired) < StaleSeconds

\* the task p leaves run_scan through its finally clause
Exits(p) == scan[p].pc = "finally" /\ scan'[p].pc # "finally"

\* C35 as stated: the release of a scan removes only the entry that scan
\* stamped, and an attempt on a chat is refused while a scan of it runs
\* with a fresh lock.
C35Original ==
    /\ [][\A p \in Procs :
             (Exits(p) /\ active_scans[scan[p].chat_file] # scan[p].acquired)
                => active_scans' = active_scans]_vars
    /\ [](\A p \in Procs :
             RunningFresh(p) =>
                 ~AcquireResult(active_scans, scan[p].chat_file, now))

\* what the code does: the release of a scan removes the entry of its chat
\* whoever stamped it; an attempt on a chat with a scan running on a fresh
\* lock is refused as long as the entry is there, and granted once the
\* release of an earlier scan of the chat has removed it.
C35Theorem ==
    /\ [][\A p \in Procs :
             Exits(p) => active_scans'[scan[p].chat_file] = NoLock]_vars
    /\ [](\A p \in Procs :
             RunningFresh(p) =>
                 (AcquireResult(active_scans, scan[p].chat_file, now)
                    <=> active_scans[scan[p].chat_file] = NoLock))

\* t2 reclaimed the stale lock of t1, t1 released on exit, and the third
\* attempt was granted: two scans of s1 run on fresh locks
C35Witness ==
    /\ reclaimed["s1"]
    /\ scan["t1"].chat_file = "s1" /\ scan["t2"].chat_file = "s1"
    /\ RunningFresh("t1") /\ RunningFresh("t2")
    /\ scan["t1"].acquired = now /\ scan["t2"].acquired = now
    /\ now = StaleSeconds

\* ------------------------------------------------------------------------
\* SpecFlag: the chunk loop and the queueing loop of run_scan on a chat in
\* which a name is spelled out only in some messages
\* ------------------------------------------------------------------------
\* "marcus aurelius"
Message3 ==
    <<"m", "a", "r", "c", "u", "s", " ", "a", "u", "r", "e", "l", "i",
      "u", "s">>

\* the text of the message at index k of the chat: "bob met marcus", "zzz",
\* "marcus aurelius"
FlagMessageAt(k) ==
    CASE k % 3 = 0 -> Message0
      [] k % 3 = 1 -> Message2
      [] OTHER -> Message3

FlagTexts(chunk) ==
    [j \in 1..(chunk[2] - chunk[1]) |-> FlagMessageAt(chunk[1] + j - 1)]

\* the candidates the oracle names: "marcus aurelius", sure of it or not,
\* with a long description or none
FlagCandidates ==
    {[name |-> Message3, confidence |-> c] : c \in {5, 10}}
    \cup {[name |-> Message3, confidence |-> c, description |-> Filler(301)] :
             c \in {5, 10}}

FlagResponses ==
    {Reply(<<JsonText(JsonDict([npcs |-> JsonList(<<JsonDict(c)>>)]))>>) :
        c \in FlagCandidates}
    \cup {Reply(<<JsonText(JsonDict([npcs |-> JsonList(<<>>)]))>>),
          OllamaError}

InitFlag ==
    /\ now = 0
    /\ active_scans = [s \in Sources |-> IF s = "s1" THEN 0 ELSE NoLock]
    /\ messages = [s \in Sources |-> IF s = "s1" THEN MaxChunks + 1 ELSE 0]
    /\ checkpoint = [s \in Sources |-> NoCheckpoint]
    /\ entity_queue = <<>>
    /\ scan_history = <<>>
    /\ scan = [p \in Procs |-> IF p = "t1" THEN ExtractScan ELSE IdleScan]
    /\ reclaimed = [s \in Sources |-> FALSE]
    /\ config = ExtractConfig
    /\ win = NotRun /\ wout = NotRun
    /\ mrg_in = NotRun /\ mrg_out = NotRun
    /\ flt_in = NotRun /\ flt_out = NotRun
    /\ ext_in \in {[texts |-> [i \in 1..Len(ExtractScan.chunks) |->
                                  FlagTexts(ExtractScan.chunks[i])],
                    responses |-> r,
                    batch_size |-> b] :
                      r \in [1..Len(ExtractScan.chunks) -> FlagResponses],
                      b \in BatchSizes}
    /\ ext_out = [calls |-> <<>>, results |-> <<>>, sleeps |-> <<>>,
                  events |-> <<StartedEvent(ExtractScan)>>]
    /\ caller = NotRun

SpecFlag == InitFlag /\ [][NextPipeline]_vars

\* ------------------------------------------------------------------------
\* Properties of the flag of a queued entity
\* ------------------------------------------------------------------------
Flagged(e) == "flagged" \in DOMAIN e /\ e.flagged = TRUE

\* C36 as stated: every queued entity that carries flagged = true has a
\* confidence of at most 0.6.
C36Original ==
    \A r \in Range(entity_queue) :
        Flagged(r.entity_data) =>
            r.entity_data.confidence <= 6 /\ r.confidence_score <= 6

\* what the code does: a queued entity whose own risk is over 0.5 is
\* flagged and has a confidence of at most 0.6; a flag outlives the merge
\* of a later candidate of the same name that is not flagged, whose higher
\* confidence and lower risk replace those of the flagged one.
C36Theorem ==
    \A r \in Range(entity_queue) :
        LET e == r.entity_data
        IN  /\ r.confidence_score = e.confidence
            /\ e.hallucination_risk > 5 =>
                  Flagged(e) /\ e.confidence <= 6
            /\ (Flagged(e) /\ e.confidence > 6) =>
                  /\ e.hallucination_risk <= 5
                  /\ \E i, j \in Processed :
                        /\ i < j
                        /\ ext_out.results[i] # Raised
                        /\ ext_out.results[j] # Raised
                        /\ \E c \in Range(ext_out.results[i]["npcs"]) :
                              RiskScore(c, OwnText(i)).risk_score > 5
                        /\ \E c \in Range(ext_out.results[j]["npcs"]) :
                              /\ RiskScore(c, OwnText(j)).risk_score <= 5
                              /\ c.confidence = e.confidence

\* "marcus aurelius" was flagged and capped in the first chunk, where only
\* "marcus" occurs, and merged with the unflagged candidate of the second
\* chunk: it is queued flagged, with confidence 1.0
C36Witness ==
    /\ Len(entity_queue) = 1
    /\ entity_queue[1].entity_name = Message3
    /\ Flagged(entity_queue[1].entity_data)
    /\ entity_queue[1].entity_data.confidence = 10
    /\ entity_queue[1].confidence_score = 10
    /\ entity_queue[1].entity_data.hallucination_risk = 0
    /\ scan["t1"].pc = "update_checkpoint"

\* ------------------------------------------------------------------------
\* C37: messages appended while a scan runs
\* ------------------------------------------------------------------------
\* the scan p of the chat s has read fewer messages than the chat holds now
AppendedSince(p, s) ==
    /\ scan[p].chat_file = s
    /\ scan[p].total >= 0
    /\ scan[p].total < messages[s]

\* C37: the checkpoint a scan writes is the end of its last chunk and is at
\* most the number of messages the scan read when it built its chunks, which
\* is at most the number the chat holds when the checkpoint is written; a
\* stored index never exceeds the length of the chat; and an incremental scan
\* that gets chunks starts its first chunk at the index it read and has every
\* index from there to its end_index in a chunk, so a message appended while
\* a scan ran lies at or above every index that scan stored and is reached by
\* the incremental scans that follow without a gap.
C37Theorem ==
    /\ [][\A p \in Procs : Checkpointed(p) =>
              LET s == scan[p].chat_file
              IN  /\ checkpoint'[s].last_processed_index
                       = scan[p].metadata.end_index
                  /\ checkpoint'[s].last_processed_index <= scan[p].total
                  /\ scan[p].total <= messages[s]]_vars
    /\ [](\A s \in Sources : IndexOf(checkpoint[s]) <= messages[s])
    /\ [](\A p \in Procs :
            (scan[p].metadata # NotRun /\ scan[p].chunks # <<>>
               /\ ~scan[p].force_rescan) =>
                /\ scan[p].metadata.start_index = IndexOf(scan[p].cp_read)
                /\ scan[p].chunks[1][1] = IndexOf(scan[p].cp_read)
                /\ scan[p].metadata.end_index <= scan[p].total
                /\ \A i \in scan[p].metadata.start_index
                               ..(scan[p].metadata.end_index - 1) :
                      InChunk(scan[p], i))

\* a message was appended to the chat while the scan p ran: p has stored a
\* checkpoint below the message, and an incremental scan q that read that
\* checkpoint has the message in a chunk
C37Witness ==
    \E p \in Procs, q \in Procs :
        /\ p # q
        /\ scan[p].pc = "record" /\ ~scan[p].force_rescan
        /\ AppendedSince(p, "s1")
        /\ checkpoint["s1"] = CheckpointRow(scan[p])
        /\ scan[q].chat_file = "s1" /\ ~scan[q].force_rescan
        /\ scan[q].cp_read = checkpoint["s1"]
        /\ scan[q].chunks # <<>>
        /\ InChunk(scan[q], scan[p].total)

\* ------------------------------------------------------------------------
\* C38: the name check and the default threshold
\* ------------------------------------------------------------------------
\* the candidate at position i of the npcs handed in is in the output
KeptAt(i) == i \in KeptOf("npcs")

\* C38: a candidate whose name check fails also has no occurrence of its name
\* in the chunk text, so it gets the zero-occurrence contribution on top of
\* the 0.5, its stored risk is at least 0.9, and filter_hallucinations with
\* the default threshold 0.7 drops it; no candidate it keeps carries the
\* 0.5 of the name check or the reason that goes with it.
C38Theorem ==
    (flt_out # NotRun /\ flt_in.threshold = DefaultThreshold) =>
        /\ \A i \in 1..Len(flt_in.given["npcs"]) :
              LET name == flt_in.given["npcs"][i].name
                  checked == flt_in.entities["npcs"][i]
              IN  NameCheckRisk(name, flt_in.source_text) = 5 =>
                      /\ Count(Lower(flt_in.source_text), Lower(name)) = 0
                      /\ checked.hallucination_risk >= 9
                      /\ ~KeptAt(i)
        /\ \A k \in 1..Len(flt_out["npcs"]) :
              /\ NameCheckRisk(flt_out["npcs"][k].name, flt_in.source_text) = 0
              /\ ~NameReason(flt_out["npcs"][k])

\* "marcus aurelius nero" checked against "bob met marcus" with the default
\* threshold: the name check failed, the risk came to 0.9 and the candidate
\* was dropped, while the second candidate was kept
C38Witness ==
    /\ flt_out # NotRun
    /\ flt_in.threshold = DefaultThreshold
    /\ Len(flt_in.given["npcs"][1].name) = 20
    /\ Len(flt_in.source_text) = 14
    /\ NameCheckRisk(flt_in.given["npcs"][1].name, flt_in.source_text) = 5
    /\ flt_in.entities["npcs"][1].hallucination_risk = 9
    /\ ~KeptAt(1)
    /\ KeptAt(2)
    /\ Len(flt_out["npcs"]) = 1

====
